---- MODULE Spec2Model ----
(***************************************************************************)
(* Model of the syslog server's log handler (syslog_server.go): the        *)
(* priority and message parsers, the locked ingest path logMessage with    *)
(* its store write, buffer append and forwarding, forwardMessage with its  *)
(* reconnect-and-retry, clearMessages and renderMessageRows.               *)
(*                                                                         *)
(* Go strings are modelled as sequences of one-character strings, so that  *)
(* prefix tests, index searches, splitting, trimming and integer parsing   *)
(* are computed the way the Go standard library computes them.             *)
(***************************************************************************)
EXTENDS Integers, Sequences, FiniteSets, TLC

\* ------------------------------------------------------------------------
\* Bounds of the model
\* ------------------------------------------------------------------------
\* number of requests (datagrams and HTTP requests) the listeners accept
MaxRequests == 3

\* number of messages the listeners accept when only ingestion is followed
MaxIngests == 2

\* ------------------------------------------------------------------------
\* Program constants
\* ------------------------------------------------------------------------
\* default of the -level flag
DefaultForwardLevel == 6
\* largest facility and severity the client accepts
MaxFacility == 23
MaxSeverity == 7
MaxPriority == MaxFacility * 8 + MaxSeverity

\* ------------------------------------------------------------------------
\* Go integer arithmetic: / and % truncate toward zero
\* ------------------------------------------------------------------------
GoDiv(a, b) == IF a >= 0 THEN a \div b ELSE 0 - ((0 - a) \div b)

GoMod(a, b) == IF a >= 0 THEN a % b ELSE 0 - ((0 - a) % b)

\* ------------------------------------------------------------------------
\* Go strings package, on sequences of characters
\* ------------------------------------------------------------------------
Digits == <<"0", "1", "2", "3", "4", "5", "6", "7", "8", "9">>

DigitChars == {Digits[i] : i \in 1..10}

DigitVal(c) == (CHOOSE i \in 1..10 : Digits[i] = c) - 1

\* unicode.IsSpace restricted to the ASCII characters the model uses
SpaceChars == {" ", "\t", "\n", "\r"}

\* strings.HasPrefix
HasPrefix(s, p) == Len(s) >= Len(p) /\ SubSeq(s, 1, Len(p)) = p

\* strings.HasSuffix
HasSuffix(s, p) == Len(s) >= Len(p) /\ SubSeq(s, Len(s) - Len(p) + 1, Len(s)) = p

\* strings.Index: 0-based offset of the first occurrence of sub, -1 if none
Index(s, sub) ==
  LET At(i) == \/ sub = <<>>
               \/ s[i] = sub[1] /\ SubSeq(s, i, i + Len(sub) - 1) = sub
      starts == 1..(Len(s) - Len(sub) + 1)
  IN IF \E i \in starts : At(i)
     THEN (CHOOSE i \in starts : At(i) /\ \A j \in 1..(i - 1) : ~At(j)) - 1
     ELSE -1

\* the Go slice expression s[lo:hi] and s[lo:], 0-based
Slice(s, lo, hi) == SubSeq(s, lo + 1, hi)

SliceFrom(s, lo) == SubSeq(s, lo + 1, Len(s))

\* strings.TrimSuffix
TrimSuffix(s, suf) == IF HasSuffix(s, suf) THEN SubSeq(s, 1, Len(s) - Len(suf)) ELSE s

RECURSIVE TrimLeft(_)
TrimLeft(s) == IF s # <<>> /\ Head(s) \in SpaceChars THEN TrimLeft(Tail(s)) ELSE s

RECURSIVE TrimRight(_)
TrimRight(s) ==
  IF s # <<>> /\ s[Len(s)] \in SpaceChars THEN TrimRight(SubSeq(s, 1, Len(s) - 1)) ELSE s

\* strings.TrimSpace
TrimSpace(s) == TrimRight(TrimLeft(s))

\* strings.ReplaceAll: non-overlapping occurrences, left to right
RECURSIVE ReplaceAll(_, _, _)
ReplaceAll(s, old, new) ==
  LET i == Index(s, old)
  IN IF i < 0 THEN s
     ELSE Slice(s, 0, i) \o new \o ReplaceAll(SliceFrom(s, i + Len(old)), old, new)

\* strings.SplitN for n > 0: at most n pieces, the last one the unsplit rest
RECURSIVE SplitN(_, _, _)
SplitN(s, sep, n) ==
  LET i == Index(s, sep)
  IN IF n <= 1 \/ i < 0 THEN <<s>>
     ELSE <<Slice(s, 0, i)>> \o SplitN(SliceFrom(s, i + Len(sep)), sep, n - 1)

\* strconv.Itoa for n >= 0 (what fmt's %d prints)
RECURSIVE Itoa(_)
Itoa(n) == IF n < 10 THEN <<Digits[n + 1]>> ELSE Itoa(n \div 10) \o <<Digits[(n % 10) + 1]>>

RECURSIVE DigitsValue(_)
DigitsValue(s) ==
  IF s = <<>> THEN 0 ELSE DigitsValue(SubSeq(s, 1, Len(s) - 1)) * 10 + DigitVal(s[Len(s)])

\* strconv.Atoi: an optional sign followed by one or more decimal digits.
\* The model's inputs have at most three digits, far below the int range.
Atoi(s) ==
  LET signed == s # <<>> /\ Head(s) \in {"+", "-"}
      body == IF signed THEN Tail(s) ELSE s
      okay == body # <<>> /\ \A i \in 1..Len(body) : body[i] \in DigitChars
  IN IF ~okay THEN [err |-> TRUE, val |-> 0]
     ELSE [err |-> FALSE,
           val |-> IF signed /\ Head(s) = "-" THEN 0 - DigitsValue(body)
                   ELSE DigitsValue(body)]

\* ------------------------------------------------------------------------
\* String literals of the program
\* ------------------------------------------------------------------------
\* "<script>" and "</script>", the tokens cleanString neutralises
ScriptOpen == <<"<", "s", "c", "r", "i", "p", "t", ">">>

ScriptClose == <<"<", "/", "s", "c", "r", "i", "p", "t", ">">>

\* "<XXX>" and "</XXX>", their replacements
XxxOpen == <<"<", "X", "X", "X", ">">>

XxxClose == <<"<", "/", "X", "X", "X", ">">>

\* ------------------------------------------------------------------------
\* Priority Parser and Message Parser
\* ------------------------------------------------------------------------
\* parsePriority returning its two results in the wrong order
parsePriority_Swapped(buf) ==
  LET failed == [err |-> TRUE, facility |-> 0, severity |-> 0]
      ix == Index(buf, <<">">>)
      num == Atoi(Slice(buf, 1, ix))
  IN IF ~HasPrefix(buf, <<"<">>) THEN failed
     ELSE IF ix < 0 THEN failed
     ELSE IF num.err THEN failed
     ELSE [err |-> FALSE,
           facility |-> GoMod(num.val, 8),
           severity |-> GoDiv(num.val, 8)]

\* parsePriority: facility and severity of the "<N>" prefix
parsePriority(buf) ==
  LET failed == [err |-> TRUE, facility |-> 0, severity |-> 0]
      ix == Index(buf, <<">">>)
      num == Atoi(Slice(buf, 1, ix))
  IN IF ~HasPrefix(buf, <<"<">>) THEN failed
     ELSE IF ix < 0 THEN failed
     ELSE IF num.err THEN failed
     ELSE [err |-> FALSE,
           facility |-> GoDiv(num.val, 8),
           severity |-> GoMod(num.val, 8)]

\* cleanString neutralising the opening token only
cleanString_OpenOnly(s) == TrimSpace(ReplaceAll(s, ScriptOpen, XxxOpen))

\* cleanString: neutralise the script tokens, then trim surrounding space
cleanString(s) ==
  TrimSpace(ReplaceAll(ReplaceAll(s, ScriptOpen, XxxOpen), ScriptClose, XxxClose))

\* space-separated join of the three date fields
JoinDate(parts) == parts[1] \o <<" ">> \o parts[2] \o <<" ">> \o parts[3]

\* parseSyslogMessage: the *syslogMsg is a set holding the entry, {} for nil
parseSyslogMessage(msg) ==
  LET failed == [err |-> TRUE, entry |-> {}]
      idx == Index(msg, <<">">>)
      parts == SplitN(SliceFrom(msg, idx + 1), <<" ">>, 6)
  IN IF ~HasPrefix(msg, <<"<">>) THEN failed
     ELSE IF parsePriority(msg).err THEN failed
     ELSE IF idx < 0 THEN failed
     ELSE IF Len(parts) < 6 THEN failed
     ELSE [err |-> FALSE,
           entry |-> {[Timestamp |-> cleanString(JoinDate(parts)),
                       Hostname |-> cleanString(parts[4]),
                       Appname |-> cleanString(TrimSuffix(parts[5], <<":">>)),
                       Message |-> cleanString(parts[6])]}]

\* the one entry a successful parse points to
EntryOf(res) == CHOOSE e \in res.entry : TRUE

\* ------------------------------------------------------------------------
\* Input lines
\* ------------------------------------------------------------------------
\* the line of the README's and the test's example, with a single-digit day
ScenarioLine ==
  <<"<", "1", "6", ">", "J", "a", "n", " ", " ", "1", " ", "0", "0", ":",
    "0", "0", ":", "0", "0", " ", "l", "o", "c", "a", "l", "h", "o", "s",
    "t", " ", "m", "y", "a", "p", "p", ":", " ", "h", "e", "l", "l", "o",
    " ", "w", "o", "r", "l", "d">>

\* " Oct 17 14:32:00 myhost myapp: msg", to follow a priority bracket
HeaderTail ==
  <<" ", "O", "c", "t", " ", "1", "7", " ", "1", "4", ":", "3", "2", ":",
    "0", "0", " ", "m", "y", "h", "o", "s", "t", " ", "m", "y", "a", "p",
    "p", ":", " ", "m", "s", "g">>

\* a line "<P>Oct 17 14:32:00 myhost myapp: msgK", unique for each K
LineOf(P, k) == <<"<">> \o Itoa(P) \o <<">">> \o Tail(HeaderTail) \o Itoa(k)

\* a line without a priority bracket
BadLineOf(k) == <<"b", "a", "d">> \o Itoa(k)

\* priorities of the lines sent to the handler: user.err and user.debug
ErrPriority == 1 * 8 + 3

DebugPriority == 1 * 8 + 7

\* what the k-th request may carry: a line below the forwarding level (the
\* scenario's line for the first request), a line above it that ends in a
\* newline, or a line without a priority
PayloadsOf(k) ==
  {IF k = 1 THEN ScenarioLine ELSE LineOf(ErrPriority, k),
   LineOf(DebugPriority, k) \o <<"\n">>,
   BadLineOf(k)}

\* ------------------------------------------------------------------------
\* State
\* ------------------------------------------------------------------------
VARIABLES
  phase,              \* "start", "running", "fatal" after the log.Fatalf of a
                      \* failed construction, "nolisten" after that of a listener
  flags,              \* the command line: -file, -remote, -level
  maxMessages,        \* buffer cap of the configuration (<= 0: no cap)
  forwardAddr,        \* logFileHandler fields
  forwardLevel,
  forwardConn,        \* 0 is nil, otherwise the id of a connection
  disableLogging,
  disableForwarding,
  messages,
  mu,                 \* holder of lh.mu, "" when unlocked
  store,              \* records written through lh.logger, in order
  reachable,          \* whether the upstream collector accepts connections
  nextConn,           \* number of connections dialled so far
  closed,             \* connections the handler has closed
  broken,             \* the connection in use, once its peer has gone away
  delivered,          \* what the upstream has received, in order
  pc,                 \* position of each worker
  req,                \* request each worker is serving
  nreq,               \* number of requests accepted so far
  response,           \* what a render has produced for its caller
  snap,               \* handler state when the worker took the lock
  trace,              \* I/O events of the worker's current call
  appended,           \* every line ever appended to the buffer, in order
  dropped,            \* lines whose forwarding was abandoned
  clearedAt,          \* length of appended at the last clear
  logger,             \* lh.logger: the active file and its backups
  origin              \* for each line of the buffer, who received it and when

hvars == <<phase, flags, maxMessages, forwardAddr, forwardLevel, forwardConn,
           disableLogging, disableForwarding, messages, mu, store, reachable,
           nextConn, closed, broken, delivered, pc, req, nreq,
           response, snap, trace, appended, dropped, clearedAt, logger,
           origin>>

VARIABLES
  pinput,             \* input of the parser run
  ptransport,         \* transport that delivered it
  pline,              \* the line as handed to the handler
  pstage,             \* "new", "received", "parsed"
  prio,               \* result of parsePriority
  parsed              \* result of parseSyslogMessage

pvars == <<pinput, ptransport, pline, pstage, prio, parsed>>

\* the components around the handler
VARIABLES
  stats,              \* the Stats Counter: received and forwarded counts
  config,             \* the Config read by the render path
  work,               \* the working message set of each worker's render
  stream,             \* the accepted stream connection and its reader
  llm                 \* a run of the anomaly program: response and result

svars == <<stats, config, work, stream, llm>>

vars == <<hvars, pvars, svars>>

\* the datagram loop of main, the worker of an accepted stream connection and
\* the workers net/http runs the handlers on
Procs == {"udp", "tcp", "http1", "http2"}

\* the workers that serve HTTP requests
HttpProcs == {"http1", "http2"}

\* the workers of the handler's main specification: one HTTP request at a time
Workers == {"udp", "http1"}

NoRequest == [op |-> "none", addr |-> <<>>, message |-> <<>>, seq |-> 0]

NoSnap == [messages |-> <<>>, forwardConn |-> 0, delivered |-> <<>>,
           closed |-> {}, nextConn |-> 0, store |-> <<>>]

NoResponse == [placeholder |-> FALSE, rows |-> <<>>]

\* ------------------------------------------------------------------------
\* Construction
\* ------------------------------------------------------------------------
\* a small positive cap of the buffer
BufferCap == 2

\* the deployments the model starts from, each a command line and a cap:
\* file logging and forwarding at the default level with a capped buffer,
\* and neither of them with an uncapped buffer
Deployments ==
  {[flags |-> [file |-> "syslog.log", remote |-> "upstream:514",
               level |-> DefaultForwardLevel],
    maxMessages |-> BufferCap],
   [flags |-> [file |-> "", remote |-> "", level |-> DefaultForwardLevel],
    maxMessages |-> 0]}

\* the rotation threshold of the model's -maxsize, in bytes: more than one
\* record, less than two long ones
MaxSizeBytes == 64

\* MaxBackups of the lumberjack.Logger
BackupCount == 3

\* the logger as configured: no file opened yet, no backups
NewLogger == [open |-> FALSE, size |-> 0, backups |-> <<>>]

HandlerInit ==
  /\ phase = "start"
  /\ \E d \in Deployments : flags = d.flags /\ maxMessages = d.maxMessages
  /\ forwardAddr = ""
  /\ forwardLevel = 0
  /\ forwardConn = 0
  /\ disableLogging = FALSE
  /\ disableForwarding = FALSE
  /\ messages = <<>>
  /\ mu = ""
  /\ store = <<>>
  /\ reachable \in (IF flags.remote = "" THEN {TRUE} ELSE BOOLEAN)
  /\ nextConn = 0
  /\ closed = {}
  /\ broken = {}
  /\ delivered = <<>>
  /\ pc = [p \in Procs |-> "idle"]
  /\ req = [p \in Procs |-> NoRequest]
  /\ nreq = 0
  /\ response = [p \in Procs |-> NoResponse]
  /\ snap = [p \in Procs |-> NoSnap]
  /\ trace = [p \in Procs |-> <<>>]
  /\ appended = <<>>
  /\ dropped = {}
  /\ clearedAt = 0
  /\ logger = NewLogger
  /\ origin = <<>>

\* setupForwardConnection leaving no connection behind when net.Dial fails
setupForwardConnection_Nil ==
  IF reachable
  THEN forwardConn' = nextConn + 1 /\ nextConn' = nextConn + 1
  ELSE forwardConn' = 0 /\ UNCHANGED nextConn

\* setupForwardConnection: net.Dial succeeds exactly when the upstream is
\* reachable, and the new connection replaces lh.forwardConn
setupForwardConnection ==
  IF reachable
  THEN forwardConn' = nextConn + 1 /\ nextConn' = nextConn + 1
  ELSE UNCHANGED <<forwardConn, nextConn>>

\* createLogFileHandler, and main's log.Fatalf when it returns an error
createLogFileHandler ==
  /\ phase = "start"
  /\ forwardAddr' = flags.remote
  /\ forwardLevel' = flags.level
  /\ disableLogging' = (flags.file = "")
  /\ messages' = <<>>
  /\ IF flags.remote # ""
     THEN /\ setupForwardConnection
          /\ disableForwarding' = FALSE
          /\ phase' = IF reachable THEN "running" ELSE "fatal"
     ELSE /\ disableForwarding' = TRUE
          /\ phase' = "running"
          /\ UNCHANGED <<forwardConn, nextConn>>
  /\ UNCHANGED <<flags, maxMessages, mu, store, reachable, closed, broken,
                 delivered, pc, req, nreq, response, snap, trace, appended,
                 dropped, clearedAt, logger, origin>>

\* main's log.Fatalf when the UDP address does not resolve, the UDP socket
\* cannot be bound, or http.ListenAndServe returns
listenFail ==
  /\ phase = "running"
  /\ nreq = 0
  /\ phase' = "nolisten"
  /\ UNCHANGED <<flags, maxMessages, forwardAddr, forwardLevel, forwardConn,
                 disableLogging, disableForwarding, messages, mu, store,
                 reachable, nextConn, closed, broken, delivered, pc, req, nreq,
                 response, snap, trace, appended, dropped, clearedAt, logger,
                 origin>>

\* the upstream collector of -remote goes away, breaking the connection to
\* it, or comes back.  The handler observes the upstream only in the Dial
\* and Write calls of forwardMessage, so a change at any other moment is
\* the same as a change right before the next of these calls, and only
\* those are generated: going away is seen by a Write or by the Dial, coming
\* back by the Dial alone, since the connection it broke stays broken.
UpstreamFlip ==
  /\ flags.remote # ""
  /\ \E p \in Procs :
       pc[p] \in (IF reachable THEN {"fwdwrite", "fwdclose", "fwdretry"}
                  ELSE {"fwdclose"})
  /\ reachable' = ~reachable
  /\ broken' = IF reachable THEN {forwardConn} \ {0} ELSE broken
  /\ UNCHANGED <<phase, flags, maxMessages, forwardAddr, forwardLevel,
                 forwardConn, disableLogging, disableForwarding, messages, mu,
                 store, nextConn, closed, delivered, pc, req, nreq, response,
                 snap, trace, appended, dropped, clearedAt, logger,
                 origin>>

\* ------------------------------------------------------------------------
\* Listeners
\* ------------------------------------------------------------------------
UdpAddr == <<"u">>

HttpAddr == <<"h">>

Methods == {"POST", "GET"}

Goto(p, label) == pc' = [pc EXCEPT ![p] = label]

Emit(p, events) == trace' = [trace EXCEPT ![p] = trace[p] \o events]

\* what the listeners leave alone
ListenerFrame ==
  UNCHANGED <<phase, flags, maxMessages, forwardAddr, forwardLevel, forwardConn,
              disableLogging, disableForwarding, messages, mu, store, reachable,
              nextConn, closed, broken, delivered, response, snap,
              trace, appended, dropped, clearedAt, logger, origin>>

\* main's datagram loop: the trimmed datagram is the message
udpLoop ==
  /\ phase = "running"
  /\ pc["udp"] = "idle"
  /\ nreq < MaxRequests
  /\ \E payload \in PayloadsOf(nreq + 1) :
       req' = [req EXCEPT !["udp"] =
                 [op |-> "ingest", addr |-> UdpAddr, message |-> TrimSpace(payload),
                  seq |-> nreq + 1]]
  /\ nreq' = nreq + 1
  /\ Goto("udp", "lock")
  /\ ListenerFrame

\* syslogHandler: the body of a POST is the message, anything else is refused
syslogHandler(p) ==
  /\ phase = "running"
  /\ p \in HttpProcs
  /\ pc[p] = "idle"
  /\ nreq < MaxRequests
  /\ nreq' = nreq + 1
  /\ \E method \in Methods, payload \in PayloadsOf(nreq + 1) :
       IF method # "POST"
       THEN UNCHANGED <<req, pc>>
       ELSE /\ req' = [req EXCEPT ![p] =
                         [op |-> "ingest", addr |-> HttpAddr, message |-> payload,
                          seq |-> nreq + 1]]
            /\ Goto(p, "lock")
  /\ ListenerFrame

\* clearHandler: only a POST clears
clearHandler(p) ==
  /\ phase = "running"
  /\ p \in HttpProcs
  /\ pc[p] = "idle"
  /\ nreq < MaxRequests
  /\ nreq' = nreq + 1
  /\ \E method \in Methods :
       IF method # "POST"
       THEN UNCHANGED <<req, pc>>
       ELSE /\ req' = [req EXCEPT ![p] = [NoRequest EXCEPT !.op = "clear"]]
            /\ Goto(p, "lock")
  /\ ListenerFrame

\* messagesHandler: renders whatever the method
messagesHandler(p) ==
  /\ phase = "running"
  /\ p \in HttpProcs
  /\ pc[p] = "idle"
  /\ nreq < MaxRequests
  /\ nreq' = nreq + 1
  /\ req' = [req EXCEPT ![p] = [NoRequest EXCEPT !.op = "render"]]
  /\ Goto(p, "lock")
  /\ ListenerFrame

\* ------------------------------------------------------------------------
\* The handler's operations, each under lh.mu
\* ------------------------------------------------------------------------
\* a Lock that does not wait
LockFree_NoWait == TRUE

\* lh.mu.Lock() returns only when nobody holds the mutex
LockFree == mu = ""

StateSnap ==
  [messages |-> messages, forwardConn |-> forwardConn, delivered |-> delivered,
   closed |-> closed, nextConn |-> nextConn, store |-> store]

Lock(p) ==
  /\ pc[p] = "lock"
  /\ LockFree
  /\ mu' = p
  /\ Goto(p, CASE req[p].op = "ingest" -> "write"
               [] req[p].op = "clear" -> "clear"
               [] OTHER -> "render")
  /\ snap' = [snap EXCEPT ![p] = StateSnap]
  /\ UNCHANGED <<phase, flags, maxMessages, forwardAddr, forwardLevel,
                 forwardConn, disableLogging, disableForwarding, messages,
                 store, reachable, nextConn, closed, broken, delivered,
                 req, nreq, response, trace, appended, dropped, clearedAt, logger,
                 origin>>

\* a return that leaves the mutex locked
Unlock_Leak(p) ==
  /\ pc[p] = "unlock"
  /\ Goto(p, "idle")
  /\ req' = [req EXCEPT ![p] = NoRequest]
  /\ snap' = [snap EXCEPT ![p] = NoSnap]
  /\ trace' = [trace EXCEPT ![p] = <<>>]
  /\ response' = [response EXCEPT ![p] = NoResponse]
  /\ UNCHANGED <<phase, flags, maxMessages, forwardAddr, forwardLevel,
                 forwardConn, disableLogging, disableForwarding, messages, mu,
                 store, reachable, nextConn, closed, broken, delivered,
                 nreq, appended, dropped, clearedAt, logger, origin>>

\* the deferred lh.mu.Unlock() of every return path
Unlock(p) ==
  /\ pc[p] = "unlock"
  /\ mu' = ""
  /\ Goto(p, "idle")
  /\ req' = [req EXCEPT ![p] = NoRequest]
  /\ snap' = [snap EXCEPT ![p] = NoSnap]
  /\ trace' = [trace EXCEPT ![p] = <<>>]
  /\ response' = [response EXCEPT ![p] = NoResponse]
  /\ UNCHANGED <<phase, flags, maxMessages, forwardAddr, forwardLevel,
                 forwardConn, disableLogging, disableForwarding, messages,
                 store, reachable, nextConn, closed, broken, delivered,
                 nreq, appended, dropped, clearedAt, logger, origin>>

\* fmt.Sprintf("[%s] %s\n", remoteAddr, message)
LogEntry(remoteAddr, message) ==
  <<"[">> \o remoteAddr \o <<"]", " ">> \o message \o <<"\n">>

\* logMessage without the return after a failed store write
AfterStoreError_Continue == "append"

\* where logMessage continues after lh.logger.Write returned an error
AfterStoreError == "unlock"

\* the backups kept after pruning: the newest BackupCount
Prune(files) ==
  IF Len(files) > BackupCount
  THEN SubSeq(files, Len(files) - BackupCount + 1, Len(files))
  ELSE files

\* the active file closed, renamed, compressed, and a fresh file opened
Rotate(lg) ==
  [open |-> TRUE, size |-> 0,
   backups |-> Prune(Append(lg.backups, [size |-> lg.size, compressed |-> TRUE]))]

\* a Write that rotates only once the file has grown past the maximum
RotatingWrite_Late(lg, n) ==
  LET file == IF lg.size > MaxSizeBytes THEN Rotate(lg) ELSE [lg EXCEPT !.open = TRUE]
  IN [file EXCEPT !.size = @ + n]

\* a Write that starts the file over without keeping a backup
RotatingWrite_Truncate(lg, n) ==
  LET file == IF lg.size + n > MaxSizeBytes
              THEN [open |-> TRUE, size |-> 0, backups |-> lg.backups]
              ELSE [lg EXCEPT !.open = TRUE]
  IN [file EXCEPT !.size = @ + n]

\* lh.logger.Write of n bytes: a write that would take the active file past
\* the maximum rotates first and goes to the fresh file
RotatingWrite(lg, n) ==
  LET file == IF lg.size + n > MaxSizeBytes THEN Rotate(lg) ELSE [lg EXCEPT !.open = TRUE]
  IN [file EXCEPT !.size = @ + n]

\* logMessage, the store step: the write may fail
logWrite(p) ==
  /\ pc[p] = "write"
  /\ IF disableLogging
     THEN /\ Goto(p, "append")
          /\ UNCHANGED <<store, logger, trace>>
     ELSE \E ok \in BOOLEAN :
            IF ok
            THEN /\ store' = Append(store, LogEntry(req[p].addr, req[p].message))
                 /\ logger' = RotatingWrite(logger,
                                            Len(LogEntry(req[p].addr, req[p].message)))
                 /\ Emit(p, <<"store-ok">>)
                 /\ Goto(p, "append")
            ELSE /\ Emit(p, <<"store-fail">>)
                 /\ Goto(p, AfterStoreError)
                 /\ UNCHANGED <<store, logger>>
  /\ UNCHANGED <<phase, flags, maxMessages, forwardAddr, forwardLevel,
                 forwardConn, disableLogging, disableForwarding, messages, mu,
                 reachable, nextConn, closed, broken, delivered, req,
                 nreq, response, snap, appended, dropped, clearedAt,
                 origin>>

\* the message put in front of the buffer instead of behind it
AppendMessage_Front(buf, message) == <<message>> \o buf

\* lh.messages = append(lh.messages, message)
AppendMessage(buf, message) == Append(buf, message)

\* the configured cap: keep the most recent maxMessages entries
TrimToCap(buf) ==
  IF maxMessages > 0 /\ Len(buf) > maxMessages
  THEN SubSeq(buf, Len(buf) - maxMessages + 1, Len(buf))
  ELSE buf

\* logMessage, the buffer step
logAppend(p) ==
  /\ pc[p] = "append"
  /\ messages' = TrimToCap(AppendMessage(messages, req[p].message))
  /\ appended' = Append(appended, req[p].message)
  /\ origin' = TrimToCap(AppendMessage(origin, [by |-> p, addr |-> req[p].addr,
                                                seq |-> req[p].seq]))
  /\ Emit(p, <<"append">>)
  /\ Goto(p, "forward")
  /\ UNCHANGED <<phase, flags, maxMessages, forwardAddr, forwardLevel,
                 forwardConn, disableLogging, disableForwarding, mu, store,
                 reachable, nextConn, closed, broken, delivered, req,
                 nreq, response, snap, dropped, clearedAt, logger>>

\* the threshold test of logMessage: TRUE when the message is not forwarded
BelowForwardLevel(severity) == forwardLevel > severity

\* forwardMessage terminating the process when the reconnect fails
AfterDialError_Fatal == "crashed"

\* where forwardMessage continues after setupForwardConnection failed
AfterDialError == "unlock"

\* a Write on a connection succeeds when it is neither closed nor broken
Writable(c) == c \notin closed /\ c \notin broken

\* logMessage forwarding a line whose priority it could not parse
Forwarded_Unparsed(message) ==
  /\ forwardAddr # ""
  /\ ~disableForwarding
  /\ parsePriority(message).err \/ ~BelowForwardLevel(parsePriority(message).severity)

\* the message passes the tests of logMessage and is given to forwardMessage
Forwarded(message) ==
  /\ forwardAddr # ""
  /\ ~disableForwarding
  /\ ~parsePriority(message).err
  /\ ~BelowForwardLevel(parsePriority(message).severity)

\* logMessage, the forwarding decision, and forwardMessage up to its first
\* Write: nothing to do when disabled, a connection is set up when there is
\* none
logForward(p) ==
  /\ pc[p] = "forward"
  /\ IF ~Forwarded(req[p].message) \/ disableForwarding
     THEN /\ Goto(p, "unlock")
          /\ UNCHANGED <<forwardConn, nextConn, trace, dropped>>
     ELSE IF forwardConn = 0
     THEN /\ setupForwardConnection
          /\ Emit(p, <<"send">> \o (IF reachable THEN <<"dial-ok">> ELSE <<"dial-fail">>))
          /\ Goto(p, IF reachable THEN "fwdwrite" ELSE AfterDialError)
          /\ dropped' = IF reachable THEN dropped ELSE dropped \cup {req[p].message}
     ELSE /\ Emit(p, <<"send">>)
          /\ Goto(p, "fwdwrite")
          /\ UNCHANGED <<forwardConn, nextConn, dropped>>
  /\ UNCHANGED <<phase, flags, maxMessages, forwardAddr, forwardLevel,
                 disableLogging, disableForwarding, messages, mu, store,
                 reachable, closed, broken, delivered, req, nreq,
                 response, snap, appended, clearedAt, logger, origin>>

\* where forwardMessage continues after the first Write failed
AfterWriteError == "fwdclose"

\* forwardMessage reconnecting and writing again although the Write succeeded
AfterWriteOk_Resend == "fwdclose"

\* where forwardMessage continues after the first Write succeeded: it returns
AfterWriteOk == "unlock"

\* forwardMessage, lh.forwardConn.Write of message + "\n"
fwdWrite(p) ==
  /\ pc[p] = "fwdwrite"
  /\ IF Writable(forwardConn)
     THEN /\ delivered' = Append(delivered, req[p].message \o <<"\n">>)
          /\ Emit(p, <<"write-ok">>)
          /\ Goto(p, AfterWriteOk)
     ELSE /\ Emit(p, <<"write-fail">>)
          /\ Goto(p, AfterWriteError)
          /\ UNCHANGED delivered
  /\ UNCHANGED <<phase, flags, maxMessages, forwardAddr, forwardLevel,
                 forwardConn, disableLogging, disableForwarding, messages, mu,
                 store, reachable, nextConn, closed, broken, req, nreq,
                 response, snap, appended, dropped, clearedAt, logger,
                 origin>>

\* forwardMessage returning after the reconnect without writing again
AfterReconnect_GiveUp == "unlock"

\* where forwardMessage continues after the reconnect succeeded: the second
\* Write
AfterReconnect == "fwdretry"

\* forwardMessage, lh.forwardConn.Close() and the reconnect
fwdReconnect(p) ==
  /\ pc[p] = "fwdclose"
  /\ closed' = closed \cup {forwardConn}
  /\ setupForwardConnection
  /\ Emit(p, <<"close", IF reachable THEN "dial-ok" ELSE "dial-fail">>)
  /\ Goto(p, IF reachable THEN AfterReconnect ELSE AfterDialError)
  /\ dropped' = IF reachable THEN dropped ELSE dropped \cup {req[p].message}
  /\ UNCHANGED <<phase, flags, maxMessages, forwardAddr, forwardLevel,
                 disableLogging, disableForwarding, messages, mu, store,
                 reachable, broken, delivered, req, nreq, response,
                 snap, appended, clearedAt, logger, origin>>

\* forwardMessage reconnecting again after the second failure
AfterRetryError_Loop == "fwdclose"

\* where forwardMessage continues after the second Write failed
AfterRetryError == "unlock"

\* forwardMessage, the second Write on the new connection
fwdRetry(p) ==
  /\ pc[p] = "fwdretry"
  /\ IF Writable(forwardConn)
     THEN /\ delivered' = Append(delivered, req[p].message \o <<"\n">>)
          /\ Emit(p, <<"write-ok">>)
          /\ Goto(p, "unlock")
          /\ UNCHANGED dropped
     ELSE /\ Emit(p, <<"write-fail">>)
          /\ Goto(p, AfterRetryError)
          /\ dropped' = dropped \cup {req[p].message}
          /\ UNCHANGED delivered
  /\ UNCHANGED <<phase, flags, maxMessages, forwardAddr, forwardLevel,
                 forwardConn, disableLogging, disableForwarding, messages, mu,
                 store, reachable, nextConn, closed, broken, req, nreq,
                 response, snap, appended, clearedAt, logger, origin>>

\* clearMessages leaving the buffer as it is
clearMessages_Keep(p) ==
  /\ pc[p] = "clear"
  /\ clearedAt' = Len(appended)
  /\ Goto(p, "unlock")
  /\ UNCHANGED <<phase, flags, maxMessages, forwardAddr, forwardLevel,
                 forwardConn, disableLogging, disableForwarding, mu, store,
                 reachable, nextConn, closed, broken, delivered, req,
                 nreq, response, snap, trace, appended, dropped, messages, logger,
                 origin>>

\* clearMessages truncating the store as well
clearMessages_Truncate(p) ==
  /\ pc[p] = "clear"
  /\ messages' = <<>>
  /\ store' = <<>>
  /\ logger' = [logger EXCEPT !.size = 0]
  /\ clearedAt' = Len(appended)
  /\ origin' = <<>>
  /\ Goto(p, "unlock")
  /\ UNCHANGED <<phase, flags, maxMessages, forwardAddr, forwardLevel,
                 forwardConn, disableLogging, disableForwarding, mu,
                 reachable, nextConn, closed, broken, delivered, req,
                 nreq, response, snap, trace, appended, dropped>>

\* clearMessages
clearMessages(p) ==
  /\ pc[p] = "clear"
  /\ messages' = <<>>
  /\ clearedAt' = Len(appended)
  /\ origin' = <<>>
  /\ Goto(p, "unlock")
  /\ UNCHANGED <<phase, flags, maxMessages, forwardAddr, forwardLevel,
                 forwardConn, disableLogging, disableForwarding, mu, store,
                 reachable, nextConn, closed, broken, delivered, req,
                 nreq, response, snap, trace, appended, dropped, logger>>

\* the row written for the line at position i
RowOf(i, e) ==
  [Index |-> i, Timestamp |-> e.Timestamp, Hostname |-> e.Hostname,
   Appname |-> e.Appname, Message |-> e.Message]

\* the loop of renderMessageRows leaving at the first line that does not parse
RECURSIVE RowsFrom_Abort(_, _)
RowsFrom_Abort(msgs, i) ==
  IF i > Len(msgs) THEN <<>>
  ELSE LET res == parseSyslogMessage(msgs[i])
       IN IF res.err THEN <<>>
          ELSE <<RowOf(i, EntryOf(res))>> \o RowsFrom_Abort(msgs, i + 1)

\* the loop of renderMessageRows putting each new row on top of the output
RECURSIVE RowsFrom_Newest(_, _)
RowsFrom_Newest(msgs, i) ==
  IF i > Len(msgs) THEN <<>>
  ELSE LET res == parseSyslogMessage(msgs[i])
       IN IF res.err THEN RowsFrom_Newest(msgs, i + 1)
          ELSE RowsFrom_Newest(msgs, i + 1) \o <<RowOf(i, EntryOf(res))>>

\* the rows renderMessageRows writes for msgs[i..], a line that does not
\* parse being skipped
RECURSIVE RowsFrom(_, _)
RowsFrom(msgs, i) ==
  IF i > Len(msgs) THEN <<>>
  ELSE LET res == parseSyslogMessage(msgs[i])
       IN IF res.err THEN RowsFrom(msgs, i + 1)
          ELSE <<RowOf(i, EntryOf(res))>> \o RowsFrom(msgs, i + 1)

\* the output of renderMessageRows: the placeholder row or the data rows
RenderRows(msgs) ==
  IF Len(msgs) = 0 THEN [placeholder |-> TRUE, rows |-> <<>>]
  ELSE [placeholder |-> FALSE, rows |-> RowsFrom(msgs, 1)]

\* renderMessageRows
renderMessageRows(p) ==
  /\ pc[p] = "render"
  /\ response' = [response EXCEPT ![p] = RenderRows(messages)]
  /\ Goto(p, "unlock")
  /\ UNCHANGED <<phase, flags, maxMessages, forwardAddr, forwardLevel,
                 forwardConn, disableLogging, disableForwarding, messages, mu,
                 store, reachable, nextConn, closed, broken, delivered,
                 req, nreq, snap, trace, appended, dropped, clearedAt, logger,
                 origin>>

HandlerNext ==
  \/ createLogFileHandler
  \/ UpstreamFlip
  \/ udpLoop
  \/ \E p \in Workers :
       \/ syslogHandler(p)
       \/ clearHandler(p)
       \/ messagesHandler(p)
       \/ Lock(p)
       \/ logWrite(p)
       \/ logAppend(p)
       \/ logForward(p)
       \/ fwdWrite(p)
       \/ fwdReconnect(p)
       \/ fwdRetry(p)
       \/ clearMessages(p)
       \/ renderMessageRows(p)
       \/ Unlock(p)

\* ------------------------------------------------------------------------
\* Parser runs: one input line, delivered by one transport, then parsed
\* ------------------------------------------------------------------------
S_Jan == <<"J", "a", "n">>

S_1 == <<"1">>

S_17 == <<"1", "7">>

S_Midnight == <<"0", "0", ":", "0", "0", ":", "0", "0">>

S_localhost == <<"l", "o", "c", "a", "l", "h", "o", "s", "t">>

S_h == <<"h">>

S_myapp == <<"m", "y", "a", "p", "p">>

S_svc == <<"s", "v", "c">>

S_hello == <<"h", "e", "l", "l", "o", " ", "w", "o", "r", "l", "d">>

S_wide == <<"a", " ", " ", "b">>

S_script == <<"<", "s", "c", "r", "i", "p", "t", ">", "x", "<", "/", "s", "c", "r", "i", "p", "t", ">">>

\* "<P>d1 d2 d3 host app: body", the date fields separated by sep
WellFormedLine(P, d1, sep, d2, d3, host, app, body) ==
  <<"<">> \o Itoa(P) \o <<">">> \o d1 \o sep \o d2 \o <<" ">> \o d3 \o <<" ">>
  \o host \o <<" ">> \o app \o <<":", " ">> \o body

\* well-formed lines with the fields they were built from
WellFormedInputs ==
  {[kind |-> "wf", P |-> P, host |-> host, app |-> app, body |-> body,
    wire |-> WellFormedLine(P, S_Jan, sep, d2, S_Midnight, host, app, body) \o nl] :
     P \in {16, ErrPriority}, sep \in {<<" ">>, <<" ", " ">>}, d2 \in {S_1, S_17},
     host \in {S_localhost, S_h}, app \in {S_myapp, S_svc},
     body \in {S_hello, S_wide, S_script}, nl \in {<<>>, <<"\n">>}}

\* one line for every priority the client can send
PriorityInputs ==
  {[kind |-> "prio", P |-> P, host |-> <<>>, app |-> <<>>, body |-> <<>>,
    wire |-> LineOf(P, 1)] : P \in 0..MaxPriority}

\* brackets that do not hold a non-negative integer, and lines without one
OddBrackets ==
  {<<"<", "-", "5", ">">>, <<"<", "+", "5", ">">>, <<"<", ">">>,
   <<"<", "x", ">">>, <<"<", "1", " ", "6", ">">>, <<"<", "1", "6">>,
   <<"1", "6", ">">>, <<" ", "<", "1", "6", ">">>}

OddInputs ==
  {[kind |-> "odd", P |-> 0, host |-> <<>>, app |-> <<>>, body |-> <<>>,
    wire |-> b \o Tail(HeaderTail)] : b \in OddBrackets}

\* "<16>" followed by fewer than six fields, single or double spaced
ShortLines ==
  {<<"<", "1", "6", ">">>,
   <<"<", "1", "6", ">">> \o S_Jan,
   <<"<", "1", "6", ">">> \o S_Jan \o <<" ">> \o S_1 \o <<" ">> \o S_Midnight,
   <<"<", "1", "6", ">">> \o S_Jan \o <<" ">> \o S_17 \o <<" ">> \o S_Midnight
     \o <<" ">> \o S_h \o <<" ">> \o S_svc \o <<":">>,
   <<"<", "1", "6", ">">> \o S_Jan \o <<" ", " ">> \o S_1 \o <<" ">> \o S_Midnight
     \o <<" ">> \o S_h \o <<" ">> \o S_svc \o <<":">>,
   <<"<", "1", "6", ">">> \o S_Jan \o <<" ">> \o S_17 \o <<" ">> \o S_Midnight
     \o <<" ">> \o S_h \o <<" ">> \o S_svc \o <<":", " ">>}

ShortInputs ==
  {[kind |-> "short", P |-> 16, host |-> <<>>, app |-> <<>>, body |-> <<>>,
    wire |-> l] : l \in ShortLines}

\* "<scr<script>ipt>" and "<</script>script>": a token inside a broken token
S_nestedOpen ==
  <<"<", "s", "c", "r">> \o ScriptOpen \o <<"i", "p", "t", ">">>

S_nestedClose == <<"<">> \o ScriptClose \o <<"s", "c", "r", "i", "p", "t", ">">>

\* lines that carry the script tokens in each of their fields
ScriptInputs ==
  {[kind |-> "script", P |-> 16, host |-> host, app |-> app, body |-> body,
    wire |-> WellFormedLine(16, d1, <<" ">>, S_17, S_Midnight, host, app, body)] :
     d1 \in {S_Jan, ScriptOpen},
     host \in {S_h, ScriptClose, S_nestedOpen},
     app \in {S_svc, S_script},
     body \in {S_script, S_nestedOpen, S_nestedClose, ScriptClose \o ScriptOpen}}

ParserInputs ==
  WellFormedInputs \cup PriorityInputs \cup OddInputs \cup ShortInputs \cup ScriptInputs

Transports == {"udp", "http"}

\* what the handler is given: main trims a datagram, syslogHandler passes
\* the request body as it is
Decode(transport, wire) == IF transport = "udp" THEN TrimSpace(wire) ELSE wire

NoPriority == [err |-> TRUE, facility |-> 0, severity |-> 0]

NoParse == [err |-> TRUE, entry |-> {}]

ParserIdle ==
  /\ pinput = [kind |-> "none", P |-> 0, host |-> <<>>, app |-> <<>>,
               body |-> <<>>, wire |-> <<>>]
  /\ ptransport = "none"
  /\ pline = <<>>
  /\ pstage = "off"
  /\ prio = NoPriority
  /\ parsed = NoParse

ParserInit ==
  /\ pinput \in ParserInputs
  /\ ptransport = "none"
  /\ pline = <<>>
  /\ pstage = "new"
  /\ prio = NoPriority
  /\ parsed = NoParse

\* the line arrives over one of the transports
Receive ==
  /\ pstage = "new"
  /\ \E t \in Transports :
       /\ ptransport' = t
       /\ pline' = Decode(t, pinput.wire)
  /\ pstage' = "received"
  /\ UNCHANGED <<pinput, prio, parsed>>

\* parsePriority is applied to the line
ParsePriorityStep ==
  /\ pstage = "received"
  /\ prio' = parsePriority(pline)
  /\ pstage' = "priority"
  /\ UNCHANGED <<pinput, ptransport, pline, parsed>>

\* parseSyslogMessage is applied to the line
ParseMessageStep ==
  /\ pstage = "priority"
  /\ parsed' = parseSyslogMessage(pline)
  /\ pstage' = "parsed"
  /\ UNCHANGED <<pinput, ptransport, pline, prio>>

ParserNext == Receive \/ ParsePriorityStep \/ ParseMessageStep

\* ------------------------------------------------------------------------
\* Stream listener
\* ------------------------------------------------------------------------
\* lines a client writes on one stream connection
MaxStreamLines == 2

TcpAddr == <<"t">>

\* no connection accepted yet
NoStream == [conn |-> "none", wire |-> <<>>, sent |-> <<>>, handed |-> <<>>]

\* what the client may write as its k-th line: a line with a priority or an
\* empty line
StreamLinesOf(k) == {LineOf(ErrPriority, k), <<>>}

\* bytes a client may leave behind its last newline before it closes
Fragments == {<<>>, <<"x">>}

HasLine(w) == Index(w, <<"\n">>) >= 0

\* a reader that hands over the line with its delimiter
ReadLine_KeepNewline(w) ==
  LET i == Index(w, <<"\n">>)
  IN [line |-> Slice(w, 0, i + 1), rest |-> SliceFrom(w, i + 1)]

\* the next newline-delimited line of the unread bytes, and what follows it
ReadLine(w) ==
  LET i == Index(w, <<"\n">>)
  IN [line |-> Slice(w, 0, i), rest |-> SliceFrom(w, i + 1)]

StreamFrame == UNCHANGED <<hvars, pvars, stats, config, work, llm>>

\* the accept loop: an accepted connection gets a worker of its own
acceptConn ==
  /\ phase = "running"
  /\ stream.conn = "none"
  /\ stream' = [stream EXCEPT !.conn = "open"]
  /\ StreamFrame

\* the peer writes one more line and its newline
clientWrite ==
  /\ stream.conn = "open"
  /\ Len(stream.sent) < MaxStreamLines
  /\ \E line \in StreamLinesOf(Len(stream.sent) + 1) :
       stream' = [stream EXCEPT !.wire = @ \o line \o <<"\n">>,
                                !.sent = Append(@, line)]
  /\ StreamFrame

\* the peer closes, possibly after bytes that no newline follows
clientClose ==
  /\ stream.conn = "open"
  /\ \E frag \in Fragments :
       stream' = [stream EXCEPT !.conn = "eof", !.wire = @ \o frag]
  /\ StreamFrame

\* the connection breaks
connError ==
  /\ stream.conn \in {"open", "eof"}
  /\ stream' = [stream EXCEPT !.conn = "error"]
  /\ StreamFrame

\* the connection worker hands a line to the handler
Hand(line, delimited, rest) ==
  /\ req' = [req EXCEPT !["tcp"] =
               [op |-> "ingest", addr |-> TcpAddr, message |-> line,
                seq |-> nreq + 1]]
  /\ nreq' = nreq + 1
  /\ Goto("tcp", "lock")
  /\ stream' = [stream EXCEPT !.wire = rest,
                              !.handed = Append(@, [line |-> line,
                                                    delimited |-> delimited])]

\* the connection worker ends
Hangup(how) ==
  /\ stream' = [stream EXCEPT !.conn = how, !.wire = <<>>]
  /\ UNCHANGED <<req, nreq, pc>>

\* the connection worker's read loop: every newline-delimited line is one
\* message; at the end of the stream the bytes after the last newline are
\* handed over or not, and the worker ends; so it does on an error, before
\* or after the lines that had arrived
streamRead ==
  /\ phase = "running"
  /\ pc["tcp"] = "idle"
  /\ stream.conn \in {"open", "eof", "error"}
  /\ \/ /\ HasLine(stream.wire)
        /\ Hand(ReadLine(stream.wire).line, TRUE, ReadLine(stream.wire).rest)
     \/ /\ ~HasLine(stream.wire)
        /\ stream.conn = "eof"
        /\ \/ stream.wire # <<>> /\ Hand(stream.wire, FALSE, <<>>)
           \/ Hangup("done")
     \/ /\ stream.conn = "error"
        /\ Hangup("failed")
  /\ ListenerFrame
  /\ UNCHANGED <<pvars, stats, config, work, llm>>

\* ------------------------------------------------------------------------
\* Anomaly program (syslog_anomaly.go)
\* ------------------------------------------------------------------------
\* choices of one completion response
MaxChoices == 2

\* "Here is the list of anomalous syslog messages:"
ReportSentence ==
  <<"H", "e", "r", "e", " ", "i", "s", " ", "t", "h", "e", " ", "l", "i",
    "s", "t", " ", "o", "f", " ", "a", "n", "o", "m", "a", "l", "o", "u",
    "s", " ", "s", "y", "s", "l", "o", "g", " ", "m", "e", "s", "s", "a",
    "g", "e", "s", ":">>

\* "ANOMALIES:"
ReportToken == <<"A", "N", "O", "M", "A", "L", "I", "E", "S", ":">>

\* the two revisions of findAnomalies: the sentinel each looks for, and
\* whether its loop over the choices breaks at the first match
Programs ==
  {[name |-> "syslog_anomaly", report |-> ReportSentence, breaks |-> FALSE],
   [name |-> "part_000", report |-> ReportToken, breaks |-> TRUE]}

\* strings.Split with a non-empty separator: every piece, empty ones too
RECURSIVE Split(_, _)
Split(s, sep) ==
  LET i == Index(s, sep)
  IN IF i < 0 THEN <<s>>
     ELSE <<Slice(s, 0, i)>> \o Split(SliceFrom(s, i + Len(sep)), sep)

NotEmpty(str) == str # <<>>

\* a removeEmptyStrings that removes nothing
removeEmptyStrings_Keep(s) == s

removeEmptyStrings(s) == SelectSeq(s, NotEmpty)

\* the body of the loop for a choice that starts with the sentinel
AnomaliesOf(content, report) ==
  removeEmptyStrings(Split(SliceFrom(content, Len(report)), <<"\n">>))

\* the loop over completionResponse.Choices from the i-th on
RECURSIVE ScanChoices(_, _, _, _)
ScanChoices(choices, i, prog, anomalies) ==
  IF i > Len(choices) THEN anomalies
  ELSE IF Index(choices[i], prog.report) = 0
       THEN IF prog.breaks
            THEN AnomaliesOf(choices[i], prog.report)
            ELSE ScanChoices(choices, i + 1, prog,
                             AnomaliesOf(choices[i], prog.report))
       ELSE ScanChoices(choices, i + 1, prog, anomalies)

\* contents a choice may have, for a sentinel: lines after it with empty
\* lines among them, nothing after it, text right behind it, the sentinel
\* at offset 1, no sentinel, an empty content, the sentinel cut short,
\* and newlines only
ContentsFor(report) ==
  {report \o <<"\n">> \o BadLineOf(1) \o <<"\n", "\n">> \o BadLineOf(2) \o <<"\n">>,
   report,
   report \o <<" ">> \o BadLineOf(3),
   <<" ">> \o report \o <<"\n">> \o BadLineOf(4),
   BadLineOf(5) \o <<"\n">> \o BadLineOf(6),
   <<>>,
   SubSeq(report, 1, Len(report) - 1) \o <<"\n">> \o BadLineOf(7),
   report \o <<"\n", "\n">>}

RECURSIVE ChoiceLists(_, _)
ChoiceLists(contents, n) ==
  IF n = 0 THEN {<<>>}
  ELSE ChoiceLists(contents, n - 1) \cup
       {Append(l, c) : l \in {x \in ChoiceLists(contents, n - 1) : Len(x) = n - 1},
                       c \in contents}

NoRun == [stage |-> "off", prog |-> "", report |-> <<>>, breaks |-> FALSE,
          decoded |-> FALSE, choices |-> <<>>, anomalies |-> <<>>, err |-> FALSE]

\* a response has arrived: a body that unmarshals into up to MaxChoices
\* choices, or one that does not
RunInit ==
  \E prog \in Programs, decoded \in BOOLEAN :
    \E choices \in (IF decoded THEN ChoiceLists(ContentsFor(prog.report), MaxChoices)
                    ELSE {<<>>}) :
      llm = [stage |-> "response", prog |-> prog.name, report |-> prog.report,
             breaks |-> prog.breaks, decoded |-> decoded, choices |-> choices,
             anomalies |-> <<>>, err |-> FALSE]

\* findAnomalies from json.Unmarshal on
findAnomalies ==
  /\ llm.stage = "response"
  /\ llm' = IF ~llm.decoded
            THEN [llm EXCEPT !.stage = "returned", !.err = TRUE]
            ELSE [llm EXCEPT !.stage = "returned",
                             !.anomalies = ScanChoices(llm.choices, 1, llm, <<>>)]
  /\ UNCHANGED <<hvars, pvars, stats, config, work, stream>>

\* main prints the anomalies, or the error
printAnomalies ==
  /\ llm.stage = "returned"
  /\ llm' = [llm EXCEPT !.stage = "printed"]
  /\ UNCHANGED <<hvars, pvars, stats, config, work, stream>>

\* ------------------------------------------------------------------------
\* Client (syslog_client.go)
\* ------------------------------------------------------------------------
\* time.Now().Format(time.RFC3339), in UTC and east of it
S_utc ==
  <<"2", "0", "2", "4", "-", "1", "0", "-", "1", "7", "T", "1", "4", ":",
    "3", "2", ":", "0", "0", "Z">>

S_east ==
  <<"2", "0", "2", "4", "-", "1", "0", "-", "1", "7", "T", "1", "6", ":",
    "3", "2", ":", "0", "0", "+", "0", "2", ":", "0", "0">>

Timestamps == {S_utc, S_east}

\* the default of -m, and messages of one, two and four words
S_test ==
  <<"T", "e", "s", "t", " ", "s", "y", "s", "l", "o", "g", " ", "m", "e",
    "s", "s", "a", "g", "e">>

S_ok == <<"o", "k">>

S_four ==
  <<"d", "i", "s", "k", " ", "s", "d", "a", "1", " ", "i", "s", " ", "f",
    "u", "l", "l">>

ClientMessages == {S_test, S_ok, S_hello, S_four}

\* fmt.Sprintf("<%d>%s %s %s", priority, timestamp, host, app+": "+message)
formatSyslogMessage(priority, timestamp, host, app, message) ==
  <<"<">> \o Itoa(priority) \o <<">">> \o timestamp \o <<" ">> \o host \o <<" ">>
  \o app \o <<":", " ">> \o message

\* what main builds from its flags: -f, -s, -h, -n and -m
ClientInputs ==
  {[kind |-> "client", facility |-> f, severity |-> sev, P |-> f * 8 + sev,
    host |-> host, app |-> app, body |-> message,
    wire |-> formatSyslogMessage(f * 8 + sev, ts, host, app, message)] :
     f \in {0, 1, MaxFacility}, sev \in {0, 6, MaxSeverity}, ts \in Timestamps,
     host \in {S_localhost, S_h}, app \in {S_myapp, S_svc},
     message \in ClientMessages}

ClientTransports == {"udp", "tcp"}

ClientInit ==
  /\ pinput \in ClientInputs
  /\ ptransport = "none"
  /\ pline = <<>>
  /\ pstage = "new"
  /\ prio = NoPriority
  /\ parsed = NoParse

\* sendUDPMessage writes the message, sendTCPMessage the message and a
\* newline; the datagram loop trims what it read, the stream reader takes
\* the line
sendMessage ==
  /\ pstage = "new"
  /\ \E t \in ClientTransports :
       /\ ptransport' = t
       /\ pline' = IF t = "udp"
                   THEN TrimSpace(pinput.wire)
                   ELSE ReadLine(pinput.wire \o <<"\n">>).line
  /\ pstage' = "received"
  /\ UNCHANGED <<pinput, prio, parsed>>

\* ------------------------------------------------------------------------
\* Stats Counter
\* ------------------------------------------------------------------------
StatsInit == stats = [received |-> 0, forwarded |-> 0]

\* the received counter incremented by every ingest, stored or not
StatsAfterStore_Always(s, passed) == [s EXCEPT !.received = @ + 1]

\* the received counter after the store step of an ingest: incremented when
\* the record was written, or when there is no file logging
StatsAfterStore(s, passed) == IF passed THEN [s EXCEPT !.received = @ + 1] ELSE s

\* the forwarded counter after a Write to the upstream
StatsAfterForward(s, written) == IF written THEN [s EXCEPT !.forwarded = @ + 1] ELSE s

\* ------------------------------------------------------------------------
\* Filter and Anomaly Pipeline
\* ------------------------------------------------------------------------
\* the Config that constrains nothing: every severity, no anomaly mode
NoFilter == [anomaliesOnly |-> FALSE, hasKey |-> FALSE, severity |-> MaxSeverity]

\* anomaly mode on or off, with or without a classifier key, every bound
Configs ==
  {[anomaliesOnly |-> a, hasKey |-> k, severity |-> S] :
     a \in BOOLEAN, k \in BOOLEAN, S \in 0..MaxSeverity}

NoWork == [p \in Procs |-> <<>>]

\* the components around the handler when they play no part
AroundInit ==
  /\ StatsInit
  /\ config = NoFilter
  /\ work = NoWork
  /\ stream = NoStream
  /\ llm = NoRun

\* a severity filter that keeps the lines at or above the bound
PassSeverity_Reversed(line, S) == parsePriority(line).severity >= S

\* the severity filter: a line is excluded when its severity exceeds the bound
PassSeverity(line, S) == ~(parsePriority(line).severity > S)

\* the rows of the lines msgs[i..] that parse and pass the filter, each with
\* its 1-based position
RECURSIVE FilteredFrom(_, _, _)
FilteredFrom(msgs, i, cfg) ==
  IF i > Len(msgs) THEN <<>>
  ELSE LET res == parseSyslogMessage(msgs[i])
       IN IF res.err \/ ~PassSeverity(msgs[i], cfg.severity)
          THEN FilteredFrom(msgs, i + 1, cfg)
          ELSE <<RowOf(i, EntryOf(res))>> \o FilteredFrom(msgs, i + 1, cfg)

\* the rendered view of a working set: placeholder, data rows, or error row
RenderFiltered(msgs, cfg) ==
  IF Len(msgs) = 0 THEN [placeholder |-> TRUE, rows |-> <<>>, error |-> ""]
  ELSE [placeholder |-> FALSE, rows |-> FilteredFrom(msgs, 1, cfg), error |-> ""]

ErrorRow(kind) == [placeholder |-> FALSE, rows |-> <<>>, error |-> kind]

\* the lines of w at the positions K, in the order of w
RECURSIVE Pick(_, _, _)
Pick(w, K, i) ==
  IF i > Len(w) THEN <<>>
  ELSE (IF i \in K THEN <<w[i]>> ELSE <<>>) \o Pick(w, K, i + 1)

\* a render that keeps the buffer lock across the classifier call
HolderWhileClassifying_Self(p) == p

\* who holds the buffer lock while the classifier runs: the render has
\* copied the buffer and released it
HolderWhileClassifying(p) == ""

\* render, under the buffer lock: the buffer is copied; without anomaly mode
\* the copy is parsed and filtered at once, with it the classifier is called
\* next, a missing key giving the configuration-error row
renderStart(p) ==
  /\ pc[p] = "render"
  /\ work' = [work EXCEPT ![p] = messages]
  /\ IF ~config.anomaliesOnly
     THEN /\ response' = [response EXCEPT ![p] = RenderFiltered(messages, config)]
          /\ Goto(p, "unlock")
          /\ UNCHANGED mu
     ELSE IF ~config.hasKey
     THEN /\ response' = [response EXCEPT ![p] = ErrorRow("config")]
          /\ Goto(p, "unlock")
          /\ UNCHANGED mu
     ELSE /\ mu' = HolderWhileClassifying(p)
          /\ Goto(p, "classify")
          /\ UNCHANGED response
  /\ UNCHANGED <<phase, flags, maxMessages, forwardAddr, forwardLevel,
                 forwardConn, disableLogging, disableForwarding, messages,
                 store, reachable, nextConn, closed, broken, delivered, req,
                 nreq, snap, trace, appended, dropped, clearedAt, logger,
                 origin, stats, config>>

\* the classifier returns: a subset of the lines it was given, in their
\* order, which replaces the working set and is parsed and filtered, or a
\* failure, which gives the error row
classify(p) ==
  /\ pc[p] = "classify"
  /\ \E ok \in BOOLEAN, K \in SUBSET (1..Len(work[p])) :
       IF ok
       THEN /\ work' = [work EXCEPT ![p] = Pick(work[p], K, 1)]
            /\ response' = [response EXCEPT ![p] = RenderFiltered(work'[p], config)]
       ELSE /\ response' = [response EXCEPT ![p] = ErrorRow("classifier")]
            /\ UNCHANGED work
  /\ mu' = IF mu = p THEN "" ELSE mu
  /\ Goto(p, "respond")
  /\ UNCHANGED <<phase, flags, maxMessages, forwardAddr, forwardLevel,
                 forwardConn, disableLogging, disableForwarding, messages,
                 store, reachable, nextConn, closed, broken, delivered, req,
                 nreq, snap, trace, appended, dropped, clearedAt, logger,
                 origin, stats, config>>

\* the rendered view is handed to the caller
respond(p) ==
  /\ pc[p] = "respond"
  /\ Goto(p, "idle")
  /\ req' = [req EXCEPT ![p] = NoRequest]
  /\ snap' = [snap EXCEPT ![p] = NoSnap]
  /\ response' = [response EXCEPT ![p] = NoResponse]
  /\ work' = [work EXCEPT ![p] = <<>>]
  /\ UNCHANGED <<phase, flags, maxMessages, forwardAddr, forwardLevel,
                 forwardConn, disableLogging, disableForwarding, messages, mu,
                 store, reachable, nextConn, closed, broken, delivered,
                 nreq, trace, appended, dropped, clearedAt, logger,
                 origin, stats, config>>

\* ------------------------------------------------------------------------
\* Specifications
\* ------------------------------------------------------------------------
\* the handler with its listeners, workers and upstream
Init == HandlerInit /\ ParserIdle /\ AroundInit

Next == HandlerNext /\ UNCHANGED <<pvars, svars>>

Spec == Init /\ [][Next]_vars

\* the parsers applied to one line
HandlerIdle ==
  /\ HandlerInit
  /\ flags = [file |-> "", remote |-> "", level |-> DefaultForwardLevel]

\* ingestion and clearing with two HTTP requests in flight at a time: no
\* file, no upstream
InitOrder == HandlerIdle /\ ParserIdle /\ AroundInit

NextOrder ==
  /\ \/ createLogFileHandler
     \/ udpLoop
     \/ \E p \in Procs \ {"tcp"} :
          \/ syslogHandler(p)
          \/ clearHandler(p)
          \/ Lock(p)
          \/ logWrite(p)
          \/ logAppend(p)
          \/ logForward(p)
          \/ clearMessages(p)
          \/ Unlock(p)
  /\ UNCHANGED <<pvars, svars>>

SpecOrder == InitOrder /\ [][NextOrder]_vars

\* logMessage with the counters, once the lock is held
logMessage(p) ==
  \/ logWrite(p) /\ stats' = StatsAfterStore(stats, pc'[p] = "append")
  \/ logAppend(p) /\ UNCHANGED stats
  \/ logForward(p) /\ UNCHANGED stats
  \/ fwdWrite(p) /\ stats' = StatsAfterForward(stats, Writable(forwardConn))
  \/ fwdReconnect(p) /\ UNCHANGED stats
  \/ fwdRetry(p) /\ stats' = StatsAfterForward(stats, Writable(forwardConn))
  \/ Unlock(p) /\ UNCHANGED stats

\* the ingest path of both listeners with the counters, from startup on
InitIngest == HandlerInit /\ ParserIdle /\ AroundInit

NextIngest ==
  /\ \/ createLogFileHandler /\ UNCHANGED stats
     \/ listenFail /\ UNCHANGED stats
     \/ UpstreamFlip /\ UNCHANGED stats
     \/ nreq < MaxIngests /\ udpLoop /\ UNCHANGED stats
     \/ \E p \in Workers :
          \/ nreq < MaxIngests /\ syslogHandler(p) /\ UNCHANGED stats
          \/ Lock(p) /\ UNCHANGED stats
          \/ logMessage(p)
  /\ UNCHANGED <<pvars, config, work, stream, llm>>

SpecIngest == InitIngest /\ [][NextIngest]_vars

\* ingest, clear and render of the datagram loop and one HTTP worker, where
\* every call made under the mutex returns and a worker that keeps finding
\* the mutex free at times gets it
InitLock == HandlerInit /\ ParserIdle /\ AroundInit

\* the steps of logMessage and clearMessages under the mutex, and the return
Operation(p) ==
  \/ logWrite(p)
  \/ logAppend(p)
  \/ logForward(p)
  \/ fwdWrite(p)
  \/ fwdReconnect(p)
  \/ fwdRetry(p)
  \/ clearMessages(p)
  \/ Unlock(p)

NextLock ==
  /\ \/ createLogFileHandler
     \/ UpstreamFlip
     \/ nreq < MaxIngests /\ udpLoop
     \/ \E p \in Workers :
          \/ nreq < MaxIngests /\ syslogHandler(p)
          \/ nreq < MaxIngests /\ clearHandler(p)
          \/ nreq < MaxIngests /\ messagesHandler(p)
          \/ Lock(p)
          \/ Operation(p)
          \/ renderMessageRows(p)
  /\ UNCHANGED <<pvars, svars>>

\* lh.mu.Lock() returns for a waiter that finds the mutex free again and
\* again (sync.Mutex hands over to a starving waiter)
Acquires(p) == SF_vars(Lock(p) /\ UNCHANGED <<pvars, svars>>)

\* every call made under the mutex returns: a step under the mutex is
\* enabled exactly at its position and leaves it, so weak fairness of the
\* steps is the condition that no caller stays at a position under the
\* mutex forever
Proceeds == \A p \in Workers : []<>(pc[p] \in {"idle", "lock"})

SpecLock ==
  InitLock /\ [][NextLock]_vars /\ Proceeds /\ \A p \in Workers : Acquires(p)

\* the same where every I/O operation of a call returns: the worker inside
\* logMessage is not stopped forever
Returns ==
  WF_vars(\E p \in Workers :
            logMessage(p) /\ UNCHANGED <<pvars, config, work, stream, llm>>)

SpecIngestFair == SpecIngest /\ Returns

\* the render path with its Config, next to the datagram loop: no file, no
\* upstream
InitRender ==
  /\ HandlerIdle
  /\ ParserIdle
  /\ StatsInit
  /\ config \in Configs
  /\ work = NoWork
  /\ stream = NoStream
  /\ llm = NoRun

NextRender ==
  /\ \/ createLogFileHandler /\ UNCHANGED work
     \/ udpLoop /\ UNCHANGED work
     \/ \E p \in Workers :
          \/ messagesHandler(p) /\ UNCHANGED work
          \/ Lock(p) /\ UNCHANGED work
          \/ logWrite(p) /\ UNCHANGED work
          \/ logAppend(p) /\ UNCHANGED work
          \/ logForward(p) /\ UNCHANGED work
          \/ renderStart(p)
          \/ classify(p)
          \/ respond(p)
          \/ Unlock(p) /\ work' = [work EXCEPT ![p] = <<>>]
  /\ UNCHANGED <<pvars, stats, config, stream, llm>>

SpecRender == InitRender /\ [][NextRender]_vars

\* one stream connection next to the datagram loop: no file, no upstream
InitStream == HandlerIdle /\ ParserIdle /\ AroundInit

NextStream ==
  \/ acceptConn
  \/ clientWrite
  \/ clientClose
  \/ connError
  \/ streamRead
  \/ /\ \/ createLogFileHandler
        \/ nreq < MaxIngests /\ udpLoop
        \/ \E p \in {"udp", "tcp"} :
             \/ Lock(p)
             \/ logWrite(p)
             \/ logAppend(p)
             \/ logForward(p)
             \/ Unlock(p)
     /\ UNCHANGED <<pvars, svars>>

SpecStream == InitStream /\ [][NextStream]_vars

\* one run of the anomaly program on a response
InitAnomaly ==
  /\ HandlerIdle
  /\ ParserIdle
  /\ StatsInit
  /\ config = NoFilter
  /\ work = NoWork
  /\ stream = NoStream
  /\ RunInit

NextAnomaly == findAnomalies \/ printAnomalies

SpecAnomaly == InitAnomaly /\ [][NextAnomaly]_vars

\* a message of the client, sent to the server and parsed there
InitClient == HandlerIdle /\ ClientInit /\ AroundInit

NextClient ==
  /\ \/ sendMessage
     \/ ParsePriorityStep
     \/ ParseMessageStep
  /\ UNCHANGED <<hvars, svars>>

SpecClient == InitClient /\ [][NextClient]_vars

InitParse == HandlerIdle /\ ParserInit /\ AroundInit

NextParse == ParserNext /\ UNCHANGED <<hvars, svars>>

SpecParse == InitParse /\ [][NextParse]_vars

\* ------------------------------------------------------------------------
\* Observations used by the properties
\* ------------------------------------------------------------------------
InTrace(p, e) == \E i \in 1..Len(trace[p]) : trace[p][i] = e

\* "send" marks the call of forwardMessage
ForwardEvents == {"dial-ok", "dial-fail", "write-ok", "write-fail", "close"}

IsForwardEvent(e) == e \in ForwardEvents

\* the connection events of the worker's current send
FwdTrace(p) == SelectSeq(trace[p], IsForwardEvent)

IsPrefix(a, b) == Len(a) <= Len(b) /\ SubSeq(b, 1, Len(a)) = a

Last(q) == q[Len(q)]

Elems(q) == {q[i] : i \in 1..Len(q)}

\* the worker is between Lock and Unlock
InCS(p) == pc[p] \notin {"idle", "lock"}

Ingesting(p) == req[p].op = "ingest"

\* the message of a store record "[addr] message\n"
MessageOfRecord(rec) == SubSeq(rec, Index(rec, <<"]", " ">>) + 3, Len(rec) - 1)

StoredLines == [i \in 1..Len(store) |-> MessageOfRecord(store[i])]

\* the lines appended since the last clear
SinceClear == SubSeq(appended, clearedAt + 1, Len(appended))

\* the last n elements of q, all of q when it is shorter
LastN(q, n) == IF Len(q) <= n THEN q ELSE SubSeq(q, Len(q) - n + 1, Len(q))

\* ------------------------------------------------------------------------
\* C1
\* ------------------------------------------------------------------------
\* C1: when file logging is enabled and the store write of an ingest call
\* fails, the call returns at once: nothing is appended to the buffer, the
\* forward link is not used, and buffer, connection and upstream are as they
\* were when the call took the lock.
C1_FailClosedIngest ==
  \A p \in Procs :
    InTrace(p, "store-fail") =>
      /\ pc[p] = "unlock"
      /\ trace[p] = <<"store-fail">>
      /\ messages = snap[p].messages
      /\ forwardConn = snap[p].forwardConn
      /\ nextConn = snap[p].nextConn
      /\ closed = snap[p].closed
      /\ delivered = snap[p].delivered
      /\ store = snap[p].store

\* a store failure on a message that would otherwise have been forwarded
C1_Witness ==
  \E p \in Procs :
    /\ pc[p] = "unlock"
    /\ trace[p] = <<"store-fail">>
    /\ ~disableLogging
    /\ Forwarded(req[p].message)
    /\ messages # <<>>

\* ------------------------------------------------------------------------
\* C2
\* ------------------------------------------------------------------------
\* C2: with forwarding configured and enabled, a message whose severity is
\* numerically greater than the forwarding threshold is not handed to
\* forwardMessage, and every message whose severity is at most the threshold
\* is handed to it.
C2_ForwardThreshold ==
  \A p \in Procs :
    (/\ Ingesting(p)
     /\ pc[p] \in {"fwdwrite", "fwdclose", "fwdretry", "unlock"}
     /\ InTrace(p, "append")
     /\ forwardAddr # ""
     /\ ~disableForwarding
     /\ ~parsePriority(req[p].message).err) =>
      LET severity == parsePriority(req[p].message).severity
      IN /\ severity > forwardLevel => ~InTrace(p, "send")
         /\ severity <= forwardLevel => InTrace(p, "send")

\* ------------------------------------------------------------------------
\* C3
\* ------------------------------------------------------------------------
\* the complete event sequences of a send that starts with a connection
SendOutcomes ==
  {<<"write-ok">>,
   <<"write-fail", "close", "dial-fail">>,
   <<"write-fail", "close", "dial-ok", "write-ok">>,
   <<"write-fail", "close", "dial-ok", "write-fail">>}

\* C3: when the write of a send fails, the broken connection is closed, one
\* reconnect is attempted and, if it succeeds, one more write; whatever the
\* outcome the send then ends, and a message dropped this way never reaches
\* the upstream afterwards.
C3_RetryOnce ==
  /\ \A p \in Procs :
       /\ \E o \in SendOutcomes : IsPrefix(FwdTrace(p), o)
       /\ (pc[p] = "unlock" /\ FwdTrace(p) # <<>>) => FwdTrace(p) \in SendOutcomes
       /\ (pc[p] = "unlock" /\ FwdTrace(p) # <<>> /\ Last(FwdTrace(p)) # "write-ok") =>
            req[p].message \in dropped
  /\ \A m \in dropped : (m \o <<"\n">>) \notin Elems(delivered)

\* a send whose write failed, reconnected, and whose second write failed too
C3_Witness ==
  \E p \in Procs :
    /\ pc[p] = "unlock"
    /\ FwdTrace(p) = <<"write-fail", "close", "dial-ok", "write-fail">>
    /\ req[p].message \in dropped

\* ------------------------------------------------------------------------
\* C4
\* ------------------------------------------------------------------------
\* C4: an ingest that finds the upstream unreachable has still written its
\* record to the store (when file logging is enabled) and appended its line
\* to the buffer, has delivered nothing upstream, and returns to its caller
\* with the process running.
C4_UnreachableUpstream ==
  \A p \in Procs :
    InTrace(p, "dial-fail") =>
      /\ pc[p] = "unlock"
      /\ phase = "running"
      /\ disableLogging \/
           (store # <<>> /\ Last(store) = LogEntry(req[p].addr, req[p].message))
      /\ messages # <<>>
      /\ Last(messages) = req[p].message
      /\ delivered = snap[p].delivered

\* an ingest has run into the unreachable upstream
C4_Witness ==
  \E p \in Procs :
    /\ InTrace(p, "dial-fail")
    /\ ~reachable
    /\ ~disableLogging
    /\ Last(store) = LogEntry(req[p].addr, req[p].message)
    /\ Last(messages) = req[p].message

\* ------------------------------------------------------------------------
\* C5
\* ------------------------------------------------------------------------
\* C5: at most one worker is between Lock and Unlock, so the store write and
\* the buffer append of an ingest are not interleaved with any other ingest,
\* clear or render, and the lines of the store records are, in order, the
\* lines appended to the buffer (plus the line of the ingest that has written
\* its record and is about to append).
C5_IngestLinearized ==
  /\ Cardinality({p \in Procs : InCS(p)}) <= 1
  /\ \A p \in Procs : InCS(p) => mu = p
  /\ (phase = "running" /\ ~disableLogging) =>
       LET lines == StoredLines
       IN \/ lines = appended
          \/ \E p \in Procs :
               /\ pc[p] = "append"
               /\ lines = appended \o <<req[p].message>>

\* the datagram loop and the HTTP worker contend: one is appending while
\* the other waits for the mutex, after an earlier ingest of the other
C5_Witness ==
  \E p, q \in Procs :
    /\ p # q
    /\ Ingesting(p) /\ pc[p] = "append"
    /\ Ingesting(q) /\ pc[q] = "lock"
    /\ ~disableLogging
    /\ Len(store) >= 2
    /\ \E i \in 1..Len(store) : HasPrefix(store[i], <<"[">> \o UdpAddr)
    /\ \E i \in 1..Len(store) : HasPrefix(store[i], <<"[">> \o HttpAddr)

C7_ScenarioRow ==
  \A p \in Procs :
    (pc[p] = "unlock" /\ req[p].op = "render" /\ messages = <<ScenarioLine>>) =>
      /\ ~response[p].placeholder
      /\ Len(response[p].rows) = 1
      /\ response[p].rows[1].Hostname = S_localhost
      /\ response[p].rows[1].Appname = S_myapp
      /\ response[p].rows[1].Message = S_hello

\* ------------------------------------------------------------------------
\* C8
\* ------------------------------------------------------------------------
\* C8: a well-formed line "<P>d1 d2 d3 host app: body" parses to hostname
\* host, app name app and message body, and to the same entry whichever
\* transport delivered it.
C8_ParseRoundTrip ==
  (pstage = "parsed" /\ pinput.kind = "wf") =>
    /\ ~parsed.err
    /\ EntryOf(parsed).Hostname = pinput.host
    /\ EntryOf(parsed).Appname = pinput.app
    /\ EntryOf(parsed).Message = pinput.body
    /\ \A t \in Transports : parseSyslogMessage(Decode(t, pinput.wire)) = parsed

\* ------------------------------------------------------------------------
\* C9
\* ------------------------------------------------------------------------
\* C9: for every P in 0..191 the prefix "<P>" parses without error to
\* facility P / 8 and severity P % 8, and facility * 8 + severity is P.
C9_PriorityRoundTrip ==
  (pstage \in {"priority", "parsed"} /\ pinput.kind = "prio") =>
    /\ ~prio.err
    /\ prio.facility = pinput.P \div 8
    /\ prio.severity = pinput.P % 8
    /\ prio.facility * 8 + prio.severity = pinput.P

\* the largest priority, local7.debug, has been parsed
C9_Witness ==
  /\ pstage = "priority"
  /\ pinput.kind = "prio"
  /\ pinput.P = MaxPriority
  /\ prio = [err |-> FALSE, facility |-> MaxFacility, severity |-> MaxSeverity]

\* ------------------------------------------------------------------------
\* C10
\* ------------------------------------------------------------------------
\* the text between "<" and the first ">" of the line
BracketText(line) == Slice(line, 1, Index(line, <<">">>))

\* decimal digits, with at most a plus sign in front
IsNonNegativeInteger(text) ==
  LET body == IF text # <<>> /\ Head(text) = "+" THEN Tail(text) ELSE text
  IN body # <<>> /\ \A i \in 1..Len(body) : body[i] \in DigitChars

\* C10: the priority parser succeeds only when the bracketed text is a
\* non-negative integer, and then the severity is in 0..7 and the facility is
\* not negative.
C10_NonNegativePriority ==
  (pstage \in {"priority", "parsed"} /\ ~prio.err) =>
    /\ IsNonNegativeInteger(BracketText(pline))
    /\ prio.severity \in 0..MaxSeverity
    /\ prio.facility >= 0

\* ------------------------------------------------------------------------
\* C11
\* ------------------------------------------------------------------------
\* decimal digits and nothing else
IsDigits(text) == text # <<>> /\ \A i \in 1..Len(text) : text[i] \in DigitChars

\* the line starts with "<", digits, ">"
HasDigitsPrefix(line) ==
  /\ HasPrefix(line, <<"<">>)
  /\ Index(line, <<">">>) >= 0
  /\ IsDigits(BracketText(line))

\* number of space-separated, non-empty fields of the text
FieldCount(text) ==
  Cardinality({i \in 1..Len(text) :
                 text[i] # " " /\ (i = 1 \/ text[i - 1] = " ")})

\* the text after the first ">" of the line
AfterPrefix(line) == SliceFrom(line, Index(line, <<">">>) + 1)

\* C11: a line without a well-formed "<digits>" prefix, or with fewer than
\* six fields after the prefix, is rejected by the message parser: an error
\* and no entry; an entry is returned only without an error.
C11_MalformedRejected ==
  pstage = "parsed" =>
    /\ (~HasDigitsPrefix(pline) \/ FieldCount(AfterPrefix(pline)) < 6) =>
         (parsed.err /\ parsed.entry = {})
    /\ parsed.err <=> parsed.entry = {}

\* ------------------------------------------------------------------------
\* C12
\* ------------------------------------------------------------------------
Contains(s, sub) == Index(s, sub) >= 0

HasScriptToken(s) == Contains(s, ScriptOpen) \/ Contains(s, ScriptClose)

\* C12: no field of an entry the message parser returns contains "<script>"
\* or "</script>".
C12_Sanitized ==
  (pstage = "parsed" /\ ~parsed.err) =>
    /\ ~HasScriptToken(EntryOf(parsed).Timestamp)
    /\ ~HasScriptToken(EntryOf(parsed).Hostname)
    /\ ~HasScriptToken(EntryOf(parsed).Appname)
    /\ ~HasScriptToken(EntryOf(parsed).Message)

\* a line with tokens in its date, host, app and message has been parsed
C12_Witness ==
  /\ pstage = "parsed"
  /\ ~parsed.err
  /\ pinput.kind = "script"
  /\ HasScriptToken(pinput.host)
  /\ HasScriptToken(pinput.app)
  /\ pinput.body = S_nestedClose
  /\ HasPrefix(EntryOf(parsed).Timestamp, XxxOpen)
  /\ EntryOf(parsed).Message = <<"<">> \o XxxClose \o <<"s", "c", "r", "i", "p", "t", ">">>

\* ------------------------------------------------------------------------
\* C13
\* ------------------------------------------------------------------------
\* a render has produced its response and is about to return
Rendered(p) == pc[p] = "unlock" /\ req[p].op = "render"

Parseable(line) == ~parseSyslogMessage(line).err

ParseablePositions(msgs) == {i \in 1..Len(msgs) : Parseable(msgs[i])}

\* C13: a render completes whatever the buffer holds; its rows are those of
\* the parseable lines, one for each, whether they come before or after a
\* line that does not parse; the buffer, malformed lines included, is as it
\* was when the render started.
C13_RenderTolerant ==
  \A p \in Procs :
    Rendered(p) =>
      LET rows == response[p].rows
          good == ParseablePositions(messages)
      IN /\ messages = snap[p].messages
         /\ \A i \in 1..Len(messages) :
              i \in good <=> \E j \in 1..Len(rows) : rows[j].Index = i
         /\ Len(rows) = Cardinality(good)

\* a render of a buffer whose first line does not parse and whose second does
C13_Witness ==
  \E p \in Procs :
    /\ Rendered(p)
    /\ Len(messages) = 2
    /\ ~Parseable(messages[1])
    /\ Parseable(messages[2])
    /\ Len(response[p].rows) = 1
    /\ response[p].rows[1].Index = 2

\* ------------------------------------------------------------------------
\* C14
\* ------------------------------------------------------------------------
\* C14: the rows of a render are in buffer order: the index of each row is
\* the position, at the time of the render, of the line the row was parsed
\* from, and the indexes increase strictly down the output.
C14_RenderOrder ==
  \A p \in Procs :
    Rendered(p) =>
      LET rows == response[p].rows
      IN /\ \A j \in 1..Len(rows) :
              /\ rows[j].Index \in 1..Len(messages)
              /\ LET res == parseSyslogMessage(messages[rows[j].Index])
                 IN ~res.err /\ rows[j] = RowOf(rows[j].Index, EntryOf(res))
         /\ \A j, k \in 1..Len(rows) : j < k => rows[j].Index < rows[k].Index

\* a render of two parseable lines received over different transports
C14_Witness ==
  \E p \in Procs :
    /\ Rendered(p)
    /\ Len(response[p].rows) = 2
    /\ response[p].rows[1].Index = 1
    /\ response[p].rows[2].Index = 2
    /\ response[p].rows[1].Message # response[p].rows[2].Message

\* ------------------------------------------------------------------------
\* C15
\* ------------------------------------------------------------------------
\* the buffer of a newly constructed handler after ingesting the lines
RECURSIVE FreshBuffer(_)
FreshBuffer(lines) ==
  IF lines = <<>> THEN <<>>
  ELSE TrimToCap(AppendMessage(FreshBuffer(SubSeq(lines, 1, Len(lines) - 1)),
                               lines[Len(lines)]))

\* C15: a render with no line ingested since the last clear gives the
\* placeholder, and a render after a clear and the ingestion of some lines
\* gives what a new handler gives after ingesting these lines.
C15_ClearRenderIdempotent ==
  \A p \in Procs :
    Rendered(p) =>
      /\ SinceClear = <<>> => response[p] = [placeholder |-> TRUE, rows |-> <<>>]
      /\ response[p] = RenderRows(FreshBuffer(SinceClear))

\* a render right after the clear of a buffer that held a line
C15_Witness ==
  \E p \in Procs :
    /\ Rendered(p)
    /\ clearedAt > 0
    /\ SinceClear = <<>>
    /\ response[p].placeholder

\* ------------------------------------------------------------------------
\* C16
\* ------------------------------------------------------------------------
\* the step of clearMessages
ClearStep == \E p \in Procs : pc[p] = "clear" /\ pc'[p] = "unlock"

\* the step of an HTTP handler that refuses the request's method
RefusedStep == nreq' = nreq + 1 /\ pc' = pc

\* C16: clearMessages empties the buffer and leaves the store's records, the
\* active file and its backups, the forward connection and the logging and forwarding configuration as they
\* are; a request refused for its method changes none of them, the buffer
\* included.
C16_ClearFrame ==
  [][/\ ClearStep =>
          /\ messages' = <<>>
          /\ UNCHANGED <<store, logger, forwardConn, nextConn, closed,
                         delivered, forwardAddr, forwardLevel, disableLogging,
                         disableForwarding, maxMessages, flags>>
     /\ RefusedStep =>
          UNCHANGED <<messages, store, logger, forwardConn, nextConn, closed,
                      delivered, forwardAddr, forwardLevel, disableLogging,
                      disableForwarding, maxMessages, flags>>]_vars

\* a clear of a non-empty buffer with records in the store and a connection
C16_Witness ==
  \E p \in Procs :
    /\ pc[p] = "unlock"
    /\ req[p].op = "clear"
    /\ snap[p].messages # <<>>
    /\ messages = <<>>
    /\ store # <<>>
    /\ logger.open
    /\ forwardConn # 0

\* ------------------------------------------------------------------------
\* C17
\* ------------------------------------------------------------------------
RECURSIVE TotalSize(_)
TotalSize(records) ==
  IF records = <<>> THEN 0 ELSE Len(Head(records)) + TotalSize(Tail(records))

\* C17: with file logging enabled, once the records written add up to more
\* than the maximum file size there is at least one backup, every backup is
\* compressed, and the active file exists.
C17_RotationHappens ==
  (~disableLogging /\ TotalSize(store) > MaxSizeBytes) =>
    /\ Len(logger.backups) >= 1
    /\ \A i \in 1..Len(logger.backups) : logger.backups[i].compressed
    /\ logger.open

\* the second long record has rotated the file holding the first
C17_Witness ==
  /\ ~disableLogging
  /\ TotalSize(store) > MaxSizeBytes
  /\ Len(store) = 2
  /\ Len(logger.backups) = 1
  /\ logger.backups[1].size = Len(store[1])
  /\ logger.size = Len(store[2])

\* ------------------------------------------------------------------------
\* C18
\* ------------------------------------------------------------------------
RECURSIVE BackupBytes(_)
BackupBytes(files) ==
  IF files = <<>> THEN 0 ELSE Head(files).size + BackupBytes(Tail(files))

\* C18: the active file never holds more than the maximum size: a record
\* that would take it past the maximum is written to the fresh file that
\* the rotation opens, and what is on disk adds up to what was written.
C18_RotateBeforeWrite ==
  /\ logger.size <= MaxSizeBytes
  /\ \A i \in 1..Len(logger.backups) : logger.backups[i].size <= MaxSizeBytes
  /\ Len(logger.backups) < BackupCount =>
       logger.size + BackupBytes(logger.backups) = TotalSize(store)

\* a short record has been added to a file that a long one had nearly filled,
\* after a rotation
C18_Witness ==
  /\ Len(logger.backups) = 1
  /\ Len(store) = 3
  /\ logger.size = Len(store[2]) + Len(store[3])
  /\ logger.size <= MaxSizeBytes
  /\ logger.size + Len(store[1]) > MaxSizeBytes

\* ------------------------------------------------------------------------
\* C19
\* ------------------------------------------------------------------------
\* C19: of two buffered messages received over the same transport, the one
\* received first comes first in the buffer.
C19_PerTransportOrder ==
  /\ Len(origin) = Len(messages)
  /\ \A i, j \in 1..Len(origin) :
       (origin[i].addr = origin[j].addr /\ origin[i].seq < origin[j].seq) => i < j

\* C19 as amended: of two buffered messages received by the same worker (the
\* datagram loop, or an HTTP worker serving one request after another), the
\* one received first comes first in the buffer.
C19_PerWorkerOrder ==
  /\ Len(origin) = Len(messages)
  /\ \A i, j \in 1..Len(origin) :
       (origin[i].by = origin[j].by /\ origin[i].seq < origin[j].seq) => i < j

\* two datagrams buffered in the order received, and between them the body
\* of an HTTP request that was received before both
C19_Witness ==
  /\ Len(messages) = 3
  /\ origin[1].by = "udp" /\ origin[3].by = "udp"
  /\ origin[1].seq < origin[3].seq
  /\ origin[2].by # "udp"
  /\ origin[2].seq < origin[1].seq

\* ------------------------------------------------------------------------
\* C20
\* ------------------------------------------------------------------------
\* number of successful writes of the worker's current send
WritesOk(p) == Cardinality({i \in 1..Len(trace[p]) : trace[p][i] = "write-ok"})

\* C20: a send completes at most one write; the upstream receives nothing
\* but ingested messages, each at most once, and never one whose send was
\* given up.
C20_AtMostOnce ==
  /\ \A p \in Procs : WritesOk(p) <= 1
  /\ \A i, j \in 1..Len(delivered) : delivered[i] = delivered[j] => i = j
  /\ \A i \in 1..Len(delivered) :
       /\ \E k \in 1..Len(appended) : delivered[i] = appended[k] \o <<"\n">>
       /\ \A m \in dropped : delivered[i] # m \o <<"\n">>

\* one message has reached the upstream and a later one has been given up
\* after both of its writes failed
C20_Witness ==
  /\ Len(delivered) = 1
  /\ dropped # {}
  /\ \E p \in Procs :
       /\ pc[p] = "unlock"
       /\ FwdTrace(p) = <<"write-fail", "close", "dial-ok", "write-fail">>
       /\ req[p].message \o <<"\n">> # delivered[1]

\* ------------------------------------------------------------------------
\* C21
\* ------------------------------------------------------------------------
\* what the upstream has received once the worker's message is added
DeliveredWith(p) == Append(snap[p].delivered, req[p].message \o <<"\n">>)

\* C21: a send that finds its connection dead (its first write fails) closes
\* that connection and dials again within the same ingest; when the dial
\* succeeds and the upstream stays up, the handler holds a new connection
\* and the message has reached the upstream, with the process running and
\* nothing done but ingesting.
C21_AutoReconnect ==
  \A p \in Procs :
    (pc[p] = "unlock" /\ InTrace(p, "write-fail")) =>
      /\ phase = "running"
      /\ snap[p].forwardConn \in closed
      /\ InTrace(p, "dial-ok") \/ InTrace(p, "dial-fail")
      /\ (InTrace(p, "dial-ok") /\ Writable(forwardConn)) =>
           /\ forwardConn \notin snap[p].closed \cup {snap[p].forwardConn}
           /\ delivered = DeliveredWith(p)
           /\ req[p].message \notin dropped

\* the send before this one failed in its write and in its reconnect, the
\* upstream has come back, and this send has reconnected and delivered
C21_Witness ==
  \E p \in Procs :
    /\ pc[p] = "unlock"
    /\ snap[p].forwardConn \in snap[p].closed
    /\ dropped # {}
    /\ FwdTrace(p) = <<"write-fail", "close", "dial-ok", "write-ok">>
    /\ reachable
    /\ delivered = DeliveredWith(p)

\* ------------------------------------------------------------------------
\* C22
\* ------------------------------------------------------------------------
\* createLogFileHandler has returned the error of its first dial
ForwardConnectFailed == flags.remote # "" /\ forwardConn = 0 /\ ~reachable

\* the worker's call has met a store, connect or write failure, or carries
\* a line without a priority
MetFailure(p) ==
  \/ InTrace(p, "store-fail")
  \/ InTrace(p, "dial-fail")
  \/ InTrace(p, "write-fail")
  \/ Ingesting(p) /\ parsePriority(req[p].message).err

\* C22: the process terminates only at startup and only for a listener that
\* cannot be bound or a log file that cannot be opened, never for a failed
\* forward connect; a store write failure, a forward connect or write
\* failure or a parse failure leaves it running.
C22_OnlyStartupFatal ==
  /\ phase = "nolisten" => nreq = 0
  /\ phase = "fatal" => (nreq = 0 /\ ~ForwardConnectFailed)
  /\ \A p \in Procs : MetFailure(p) => phase = "running"

\* ------------------------------------------------------------------------
\* C23
\* ------------------------------------------------------------------------
\* ingests that have passed the store step: those that have appended their
\* line and those about to
PastStore == Len(appended) + Cardinality({p \in Procs : pc[p] = "append"})

\* C23: the received counter is the number of ingests that got past the
\* store step (record written, or no file logging), an ingest aborted by a
\* store failure not being counted; neither counter ever decreases.
C23_ReceivedCounter ==
  /\ [](stats.received = PastStore)
  /\ [][/\ stats'.received >= stats.received
        /\ stats'.forwarded >= stats.forwarded]_vars

\* one ingest has been counted and another one, aborted by a store failure,
\* has not
C23_Witness ==
  \E p \in Procs :
    /\ pc[p] = "unlock"
    /\ trace[p] = <<"store-fail">>
    /\ Len(appended) = 1
    /\ stats.received = 1

\* ------------------------------------------------------------------------
\* C24
\* ------------------------------------------------------------------------
\* a render has produced its view and is about to hand it over
ViewReady(p) == req[p].op = "render" /\ pc[p] \in {"unlock", "respond"}

\* the line a row of the worker's view was parsed from
LineOfRow(p, row) == work[p][row.Index]

\* C24: whatever the buffer holds and whatever the bound S in 0..7, no row
\* of a render with severity S comes from a line whose severity, the
\* priority modulo 8, is greater than S.
C24_SeverityFilter ==
  \A p \in Procs :
    ViewReady(p) =>
      \A j \in 1..Len(response[p].rows) :
        LET row == response[p].rows[j]
        IN /\ row.Index \in 1..Len(work[p])
           /\ ~parsePriority(LineOfRow(p, row)).err
           /\ parsePriority(LineOfRow(p, row)).severity <= config.severity

\* a render with bound 3 of a buffer holding a severity-3 line and a
\* severity-7 line: the first is shown, the second is not
C24_Witness ==
  \E p \in Procs :
    /\ ViewReady(p)
    /\ config.severity = 3
    /\ Len(work[p]) = 2
    /\ parsePriority(work[p][1]).severity = 7
    /\ parsePriority(work[p][2]).severity = 3
    /\ Len(response[p].rows) = 1
    /\ response[p].rows[1].Index = 2

IsDelimited(h) == h.delimited

LinesOf(hs) == [i \in 1..Len(hs) |-> hs[i].line]

\* the newline-delimited lines the connection worker has handed over
DelimitedHanded == LinesOf(SelectSeq(stream.handed, IsDelimited))

\* the buffered messages that came over the stream connection, in order
TcpMessages ==
  LET idx == SelectSeq([i \in 1..Len(origin) |-> i],
                       LAMBDA i : origin[i].by = "tcp")
  IN [k \in 1..Len(idx) |-> messages[idx[k]]]

\* the handed lines whose ingest has reached the buffer
Arrived ==
  IF pc["tcp"] \in {"lock", "write", "append"}
  THEN SubSeq(LinesOf(stream.handed), 1, Len(stream.handed) - 1)
  ELSE LinesOf(stream.handed)

\* C25: the lines ingested from an accepted connection are the lines the
\* peer ended with a newline, each once and without the newline, in the
\* order written: a prefix of them while the connection is read and after an
\* error, all of them once the end of the stream was reached; each handed
\* line becomes one message of the buffer, in that order.
C25_StreamLines ==
  /\ stream.conn = "none" => stream.handed = <<>>
  /\ IsPrefix(DelimitedHanded, stream.sent)
  /\ stream.conn = "done" => DelimitedHanded = stream.sent
  /\ \A i \in 1..Len(stream.handed) :
       ~stream.handed[i].delimited =>
         /\ i = Len(stream.handed)
         /\ stream.conn \in {"eof", "done", "error", "failed"}
  /\ Len(origin) = Len(messages)
  /\ TcpMessages = Arrived

\* a connection read to its end: two different lines, one of them empty,
\* buffered in the order written with a datagram between them
C25_Witness ==
  /\ stream.conn = "done"
  /\ Len(stream.sent) = MaxStreamLines
  /\ stream.sent[1] # stream.sent[2]
  /\ \E i \in 1..2 : parsePriority(stream.sent[i]).err
  /\ TcpMessages = stream.sent
  /\ pc["tcp"] = "idle"
  /\ \E j \in 2..(Len(origin) - 1) :
       /\ origin[j].by = "udp"
       /\ origin[j - 1].by = "tcp"
       /\ origin[j + 1].by = "tcp"

\* ------------------------------------------------------------------------
\* C27
\* ------------------------------------------------------------------------
IsStoreEvent(e) == e \in {"store-ok", "store-fail"}

IsWriteEvent(e) == e \in {"write-ok", "write-fail"}

StoreWrites(p) == Len(SelectSeq(trace[p], IsStoreEvent))

UpstreamWrites(p) == Len(SelectSeq(trace[p], IsWriteEvent))

\* C27: an ingest writes to the store at most once and to the upstream at
\* most twice, and, every I/O operation returning, a worker that holds the
\* lock for an ingest releases it.
C27_BoundedIngest ==
  /\ [](\A p \in Procs : Ingesting(p) => StoreWrites(p) <= 1 /\ UpstreamWrites(p) <= 2)
  /\ (\E p \in Procs : Ingesting(p) /\ mu = p) ~> (mu = "")

\* an ingest that did the most: one store write, a failed upstream write, a
\* reconnect and a second write, about to release the lock
C27_Witness ==
  \E p \in Procs :
    /\ Ingesting(p)
    /\ pc[p] = "unlock"
    /\ mu = p
    /\ StoreWrites(p) = 1
    /\ UpstreamWrites(p) = 2
    /\ InTrace(p, "dial-ok")

\* ------------------------------------------------------------------------
\* C28
\* ------------------------------------------------------------------------
\* an ingest past its buffer step, still holding the lock
Stored(p) == Ingesting(p) /\ mu = p /\ InTrace(p, "append")

\* "[A] L" and a newline
RecordOf(A, L) == <<"[">> \o A \o <<"]", " ">> \o L \o <<"\n">>

\* C28: once an ingest of line L from address A has appended, L itself is
\* the last element of the buffer (and the buffer is the previous one with L
\* behind it when there is no cap), and the store is the previous store
\* with the one record "[A] L" and a newline behind it when file logging is
\* enabled, and the previous store otherwise.
C28_RawStorage ==
  \A p \in Procs :
    Stored(p) =>
      /\ messages # <<>>
      /\ Last(messages) = req[p].message
      /\ maxMessages <= 0 => messages = Append(snap[p].messages, req[p].message)
      /\ store = IF disableLogging
                 THEN snap[p].store
                 ELSE Append(snap[p].store, RecordOf(req[p].addr, req[p].message))

\* a line with its priority prefix and a trailing newline, received in the
\* body of a POST and stored as it came, behind an earlier line and record
C28_Witness ==
  \E p \in Procs :
    /\ Stored(p)
    /\ ~disableLogging
    /\ HasPrefix(req[p].message, <<"<">>)
    /\ HasSuffix(req[p].message, <<"\n">>)
    /\ Len(messages) = 2
    /\ Len(store) = 2
    /\ Last(store) = <<"[">> \o HttpAddr \o <<"]", " ">> \o req[p].message \o <<"\n">>

\* ------------------------------------------------------------------------
\* C29
\* ------------------------------------------------------------------------
\* the choices whose content begins with the sentinel
Sentinelled == {i \in 1..Len(llm.choices) : HasPrefix(llm.choices[i], llm.report)}

\* the text of a choice behind the sentinel
TextAfter(i) == SubSeq(llm.choices[i], Len(llm.report) + 1, Len(llm.choices[i]))

RECURSIVE DropNewlines(_)
DropNewlines(t) == IF t # <<>> /\ Head(t) = "\n" THEN DropNewlines(Tail(t)) ELSE t

\* a text without its leading and trailing newlines, every run of newlines
\* in it reduced to one
RECURSIVE Squeeze(_)
Squeeze(t) ==
  IF t = <<>> THEN <<>>
  ELSE IF Head(t) = "\n"
       THEN IF DropNewlines(t) = <<>> THEN <<>>
            ELSE <<"\n">> \o Squeeze(DropNewlines(t))
       ELSE <<Head(t)>> \o Squeeze(Tail(t))

RECURSIVE JoinLines(_)
JoinLines(ls) ==
  IF ls = <<>> THEN <<>>
  ELSE IF Len(ls) = 1 THEN ls[1]
       ELSE ls[1] \o <<"\n">> \o JoinLines(Tail(ls))

\* ls are the non-empty lines of the text, in order
IsLinesOf(ls, text) ==
  /\ \A k \in 1..Len(ls) : ls[k] # <<>> /\ Index(ls[k], <<"\n">>) < 0
  /\ JoinLines(ls) = Squeeze(DropNewlines(text))

\* C29: for a response that was decoded, findAnomalies returns no error; its
\* result is non-empty only if some choice begins with the sentinel, it is
\* then the non-empty lines of the text behind the sentinel of such a
\* choice, and it is empty when no choice begins with the sentinel.
C29_SentinelDecoding ==
  (llm.stage \in {"returned", "printed"} /\ llm.decoded) =>
    /\ ~llm.err
    /\ llm.anomalies # <<>> => Sentinelled # {}
    /\ Sentinelled = {} => llm.anomalies = <<>>
    /\ Sentinelled # {} =>
         \E i \in Sentinelled : IsLinesOf(llm.anomalies, TextAfter(i))

\* two lines recovered from a choice with an empty line between them, the
\* other choice having the sentinel at offset 1
C29_Witness ==
  /\ llm.stage = "returned"
  /\ llm.decoded
  /\ Len(llm.choices) = 2
  /\ Cardinality(Sentinelled) = 1
  /\ \E i \in 1..2 : Index(llm.choices[i], llm.report) = 1
  /\ llm.anomalies = <<BadLineOf(1), BadLineOf(2)>>

\* ------------------------------------------------------------------------
\* C30
\* ------------------------------------------------------------------------
\* C30: a message the client built from facility f, severity s, host h, app
\* a and message m is parsed by the server to facility f and severity s and
\* to an entry with hostname h, app name a and message m.
C30_ClientServerAgreement ==
  (pstage = "parsed" /\ pinput.kind = "client") =>
    /\ ~prio.err
    /\ prio.facility = pinput.facility
    /\ prio.severity = pinput.severity
    /\ ~parsed.err
    /\ EntryOf(parsed).Hostname = pinput.host
    /\ EntryOf(parsed).Appname = pinput.app
    /\ EntryOf(parsed).Message = pinput.body

\* ------------------------------------------------------------------------
\* C31
\* ------------------------------------------------------------------------
\* createLogFileHandler has returned a handler
Constructed == phase \in {"running", "nolisten"}

\* C31: once the handler is constructed, forwarding is disabled exactly when
\* no forward address is configured, a handler with forwarding enabled holds
\* a connection, and no step changes the disabled flags or the forward
\* address.
C31_ForwardConfig ==
  /\ [](Constructed =>
          /\ forwardAddr = flags.remote
          /\ disableForwarding <=> forwardAddr = ""
          /\ ~disableForwarding => forwardConn # 0)
  /\ [][Constructed =>
          UNCHANGED <<disableLogging, disableForwarding, forwardAddr>>]_vars

\* forwarding enabled after a send whose reconnect failed: the handler
\* still holds the connection it closed
C31_Witness ==
  /\ Constructed
  /\ ~disableForwarding
  /\ forwardAddr # ""
  /\ forwardConn # 0
  /\ forwardConn \in closed
  /\ \E p \in Procs : pc[p] = "unlock" /\ InTrace(p, "dial-fail")

\* ------------------------------------------------------------------------
\* C32
\* ------------------------------------------------------------------------
\* the worker's next step is a Write on lh.forwardConn, or its Close
AboutToWrite(p) == pc[p] \in {"fwdwrite", "fwdretry"}

AboutToClose(p) == pc[p] = "fwdclose"

\* C32: the connection a send is about to write to, or to close, is not one
\* the handler has closed before.
C32_NoUseAfterClose ==
  \A p \in Procs :
    (AboutToWrite(p) \/ AboutToClose(p)) => forwardConn \notin closed

\* ------------------------------------------------------------------------
\* C33
\* ------------------------------------------------------------------------
\* C33: a worker holds the mutex exactly from its Lock to its return,
\* whatever the return path, so none locks while it holds; and, every call
\* made under the mutex returning, every worker that waits for the mutex
\* gets it.
C33_LockDiscipline ==
  /\ [](\A p \in Procs : (mu = p) <=> InCS(p))
  /\ \A p \in Workers : (pc[p] = "lock") ~> (mu = p)

\* the HTTP worker waits for the mutex while an ingest of the datagram loop
\* returns early after a failed store write, still holding it
C33_Witness ==
  /\ pc["http1"] = "lock"
  /\ pc["udp"] = "unlock"
  /\ mu = "udp"
  /\ InTrace("udp", "store-fail")

\* ------------------------------------------------------------------------
\* C34
\* ------------------------------------------------------------------------
\* an ingest of a line whose priority prefix does not parse
Malformed(p) == Ingesting(p) /\ parsePriority(req[p].message).err

\* the line of an upstream write "L\n"
LineOfWrite(w) == SubSeq(w, 1, Len(w) - 1)

\* C34: an ingest of a line with a malformed priority prefix writes its
\* record to the store (when file logging is enabled and the write succeeds)
\* and appends the line to the buffer like any other, returning only after
\* both; it never calls the forward link, and no line received upstream has
\* a malformed priority prefix.
C34_MalformedPriority ==
  /\ \A p \in Procs :
       Malformed(p) =>
         /\ (pc[p] = "append" /\ ~disableLogging) =>
              store = Append(snap[p].store, LogEntry(req[p].addr, req[p].message))
         /\ (pc[p] \in {"forward", "unlock"} /\ ~InTrace(p, "store-fail")) =>
              /\ InTrace(p, "append")
              /\ messages # <<>>
              /\ Last(messages) = req[p].message
         /\ pc[p] \notin {"fwdwrite", "fwdclose", "fwdretry"}
         /\ ~InTrace(p, "send")
         /\ InCS(p) => delivered = snap[p].delivered
  /\ \A i \in 1..Len(delivered) : ~parsePriority(LineOfWrite(delivered[i])).err

\* with forwarding enabled and a message already delivered upstream, a line
\* without a priority has been stored and buffered and its ingest returns
C34_Witness ==
  \E p \in Procs :
    /\ Malformed(p)
    /\ pc[p] = "unlock"
    /\ ~disableForwarding /\ forwardAddr # ""
    /\ ~disableLogging
    /\ InTrace(p, "store-ok")
    /\ Last(store) = LogEntry(req[p].addr, req[p].message)
    /\ Last(messages) = req[p].message
    /\ Len(delivered) = 1

\* ------------------------------------------------------------------------
\* C35
\* ------------------------------------------------------------------------
\* in the events of the worker's current call, every e2 has an e1 before it
Precedes(p, e1, e2) ==
  \A j \in 1..Len(trace[p]) :
    trace[p][j] = e2 => \E i \in 1..(j - 1) : trace[p][i] = e1

\* C35: with file logging enabled, a call appends to the buffer only after
\* its own store write succeeded, so the k-th line ever appended is the line
\* of the k-th record of the store and every buffered line has the record
\* "[addr] line" of its call in the store; and a call writes upstream only
\* after its own append, so every line the upstream received is a line that
\* was appended, and the line of a call about to write or having written is
\* the one appended last.
C35_PersistBeforeBuffer ==
  /\ ~disableLogging =>
       /\ \A p \in Procs : Precedes(p, "store-ok", "append")
       /\ Len(appended) <= Len(store)
       /\ \A k \in 1..Len(appended) : MessageOfRecord(store[k]) = appended[k]
       /\ Len(origin) = Len(messages)
       /\ \A i \in 1..Len(messages) :
            \E k \in 1..Len(store) : store[k] = LogEntry(origin[i].addr, messages[i])
  /\ \A p \in Procs :
       /\ Precedes(p, "append", "send")
       /\ Precedes(p, "append", "write-ok")
       /\ (pc[p] \in {"fwdwrite", "fwdretry"} \/ InTrace(p, "write-ok")) =>
            /\ appended # <<>>
            /\ Last(appended) = req[p].message
  /\ \A i \in 1..Len(delivered) :
       \E k \in 1..Len(appended) : delivered[i] = appended[k] \o <<"\n">>

\* the second of two ingests has written its record, appended its line and
\* delivered it upstream, and the buffer holds both lines
C35_Witness ==
  \E p \in Procs :
    /\ pc[p] = "unlock"
    /\ ~disableLogging
    /\ trace[p] = <<"store-ok", "append", "send", "write-ok">>
    /\ Len(store) = 2
    /\ Len(messages) = 2
    /\ Last(delivered) = req[p].message \o <<"\n">>

\* ------------------------------------------------------------------------
\* C36
\* ------------------------------------------------------------------------
\* the positions at which the upstream write w was appended as a line
AppendedAt(w) == {k \in 1..Len(appended) : appended[k] \o <<"\n">> = w}

\* C36: the upstream's input only grows at its end, and of two lines in it
\* the earlier one was appended to the buffer before the later one: each
\* line received was appended exactly once, at a position that grows with
\* its position upstream.
C36_ForwardOrder ==
  /\ [](/\ \A i \in 1..Len(delivered) : Cardinality(AppendedAt(delivered[i])) = 1
        /\ \A i, j \in 1..Len(delivered) :
             i < j => \A a \in AppendedAt(delivered[i]) :
                        \A b \in AppendedAt(delivered[j]) : a < b)
  /\ [][\/ delivered' = delivered
        \/ \E p \in Procs : delivered' = Append(delivered, req[p].message \o <<"\n">>)]_vars

\* two lines of two concurrent callers received upstream over two
\* connections, the second after a reconnect, in the order of their appends
C36_Witness ==
  /\ Len(delivered) = 2
  /\ Len(appended) = 2
  /\ delivered[1] = appended[1] \o <<"\n">>
  /\ delivered[2] = appended[2] \o <<"\n">>
  /\ closed # {}
  /\ Len(origin) = 2
  /\ origin[1].by # origin[2].by

\* ------------------------------------------------------------------------
\* C37
\* ------------------------------------------------------------------------
\* C37: the output of the message-rows render is the placeholder row exactly
\* when it holds no data row.
C37_PlaceholderIffNoRows ==
  \A p \in Procs :
    Rendered(p) => (response[p].placeholder <=> response[p].rows = <<>>)

====
